---------------------------- MODULE Spec2Model ----------------------------
(***************************************************************************)
(* A model of the kafa bytecode interpreter: VM::execute, the thread's     *)
(* dispatch loops (exec_bootstrap_method, exec_class_initialization),      *)
(* Class::initialize and the instructions that trigger initialization      *)
(* (getstatic, putstatic, invokestatic, new).                              *)
(*                                                                         *)
(* The interpreter is recursive: an instruction calls Class::initialize,   *)
(* which runs a nested dispatch loop for <clinit>, whose instructions may  *)
(* call initialize again.  The Rust call stack is the variable ctl; the    *)
(* result a callee hands to the activation on top of ctl is ret.           *)
(***************************************************************************)
EXTENDS Integers, Sequences, FiniteSets, TLC

VARIABLES
    frames,     \* Thread.frames: the frame stack (bottom first)
    classes,    \* MethodArea.classes: name -> resolved class (init state, static cells)
    heap,       \* Heap.0: the vector of RefValue, index 0 is Null
    ctl,        \* the Rust call stack below VM::execute (bottom first)
    ret,        \* result returned to the activation on top of ctl: none, ok, err
    vm,         \* idle (no execute running), running, panicked
    call,       \* arguments of the running / last execute call
    result,     \* outcome of the last execute call
    n_exec,     \* number of execute calls made on this VM
    first,      \* the first execute call on this VM (a fresh VM) and its outcome
    clinit_runs,\* per class: <clinit> frames pushed during the current execute
    ev,         \* the event of the last step (history)
    cp,         \* ClassLoader: the class files found under the class path, by name
    q           \* the last direct call of a method-area, heap or frame function and its result

vars == <<frames, classes, heap, ctl, ret, vm, call, result, n_exec, first, clinit_runs, ev, cp, q>>

----------------------------------------------------------------------------
(* Bounds *)

\* execute calls made on one VM
MaxExecutes == 3

----------------------------------------------------------------------------
(* Values *)

\* Value::Int(n) and Value::Reference(i)
ValueInt(n) == [t |-> "Int", v |-> n]
ValueReference(i) == [t |-> "Reference", v |-> i]
NoValue == [t |-> "none", v |-> 0]

----------------------------------------------------------------------------
(* The class files on the class path.  Code is a sequence of instructions, *)
(* one element per instruction, each with its constant-pool operand        *)
(* already written next to it.                                             *)

NoClass == "none"
CLINIT == "<clinit>"

I(op) == [op |-> op, cls |-> NoClass, name |-> "", k |-> 0]
Iconst(k) == [op |-> "iconst", cls |-> NoClass, name |-> "", k |-> k]
Lconst(k) == [op |-> "lconst", cls |-> NoClass, name |-> "", k |-> k]
Getstatic(c, f) == [op |-> "getstatic", cls |-> c, name |-> f, k |-> 0]
Putstatic(c, f) == [op |-> "putstatic", cls |-> c, name |-> f, k |-> 0]
Invokestatic(c, m) == [op |-> "invokestatic", cls |-> c, name |-> m, k |-> 0]
New(c) == [op |-> "new", cls |-> c, name |-> "", k |-> 0]
Ireturn == I("ireturn")
Areturn == I("areturn")
Return == I("return")
\* an opcode with no entry in INSTRUCTION_TABLE (such as 0xBF)
Unimpl == I("unimpl")

Meth(nargs, code) == [nargs |-> nargs, code |-> code]
NoMethods == [m \in {} |-> Meth(0, <<>>)]
NoFields == [f \in {} |-> NoValue]
NoInstMethods == [m \in {} |-> [abstract |-> TRUE]]

ClassDecl(sc, ifs, isif, sfields, smeths, imeths) ==
    [super_class |-> sc, interfaces |-> ifs, is_interface |-> isif,
     static_fields |-> sfields, static_methods |-> smeths, inst_methods |-> imeths,
     inst_fields_info |-> [g \in {} |-> "I"]]

ClassPath == {"A", "Base", "Sub", "Bad", "BadSub", "IDef", "IAbs", "ISup", "T", "K", "Orphan"}

ClassFile(n) ==
    CASE n = "A" ->
            ClassDecl(NoClass, <<>>, FALSE, ("x" :> ValueInt(0)),
                (CLINIT :> Meth(0, <<Iconst(7), Putstatic("A", "x"), Return>>))
                @@ ("get" :> Meth(0, <<Getstatic("A", "x"), Ireturn>>))
                @@ ("start" :> Meth(0, <<Iconst(3), Ireturn>>))
                @@ ("bad" :> Meth(0, <<Unimpl>>))
                @@ ("arg1" :> Meth(1, <<Iconst(3), Ireturn>>))
                @@ ("lret" :> Meth(0, <<Lconst(1), I("lreturn")>>))
                @@ ("wrongTag" :> Meth(0, <<Iconst(1), I("dreturn")>>))
                @@ ("div" :> Meth(0, <<Iconst(5), Iconst(-2), I("idiv"), Ireturn>>))
                @@ ("idivZero" :> Meth(0, <<Iconst(4), Iconst(0), I("idiv"), Ireturn>>))
                @@ ("iremZero" :> Meth(0, <<Iconst(4), Iconst(0), I("irem"), Ireturn>>))
                @@ ("ldivZero" :> Meth(0, <<Lconst(1), Lconst(0), I("ldiv"), Return>>))
                @@ ("lremZero" :> Meth(0, <<Lconst(1), Lconst(0), I("lrem"), Return>>)),
                NoInstMethods)
      [] n = "Base" ->
            ClassDecl(NoClass, <<>>, FALSE, ("x" :> ValueInt(0)),
                (CLINIT :> Meth(0, <<Getstatic("Sub", "x"), Putstatic("Base", "x"), Return>>))
                @@ ("helper" :> Meth(1, <<Iconst(1), Ireturn>>)),
                NoInstMethods)
      [] n = "Sub" ->
            ClassDecl("Base", <<"IDef", "IAbs">>, FALSE, ("x" :> ValueInt(0)),
                (CLINIT :> Meth(0, <<Iconst(5), Putstatic("Sub", "x"), Return>>))
                @@ ("get" :> Meth(0, <<Getstatic("Sub", "x"), Ireturn>>)),
                NoInstMethods)
      [] n = "Bad" ->
            ClassDecl(NoClass, <<>>, FALSE, ("x" :> ValueInt(9)),
                (CLINIT :> Meth(0, <<Unimpl>>)),
                NoInstMethods)
      [] n = "BadSub" ->
            ClassDecl("Bad", <<>>, FALSE, ("x" :> ValueInt(8)), NoMethods, NoInstMethods)
      [] n = "IDef" ->
            ClassDecl(NoClass, <<"ISup">>, TRUE, ("x" :> ValueInt(0)),
                (CLINIT :> Meth(0, <<Iconst(1), Putstatic("IDef", "x"), Return>>)),
                ("dflt" :> [abstract |-> FALSE]))
      [] n = "ISup" ->
            ClassDecl(NoClass, <<>>, TRUE, ("x" :> ValueInt(0)),
                (CLINIT :> Meth(0, <<Iconst(2), Putstatic("ISup", "x"), Return>>)),
                ("sup" :> [abstract |-> FALSE]))
      [] n = "IAbs" ->
            ClassDecl(NoClass, <<>>, TRUE, ("x" :> ValueInt(0)) @@ ("y" :> ValueInt(0)),
                (CLINIT :> Meth(0, <<Iconst(4), Putstatic("IAbs", "x"), Return>>)),
                ("abs" :> [abstract |-> TRUE]))
      [] n = "T" ->
            ClassDecl(NoClass, <<>>, FALSE, NoFields,
                ("useBadSub" :> Meth(0, <<Getstatic("BadSub", "x"), Ireturn>>))
                @@ ("useBase" :> Meth(0, <<Getstatic("Base", "x"), Ireturn>>))
                @@ ("callHelper" :> Meth(0, <<Iconst(4), Invokestatic("Sub", "helper"), Ireturn>>))
                @@ ("newSub" :> Meth(0, <<New("Sub"), Areturn>>))
                @@ ("useIfaceField" :> Meth(0, <<Getstatic("Sub", "y"), Ireturn>>))
                @@ ("useOrphan" :> Meth(0, <<Getstatic("Orphan", "x"), Ireturn>>)),
                NoInstMethods)
      [] n = "K" ->
            ClassDecl(NoClass, <<>>, FALSE, ("x" :> ValueInt(0)),
                (CLINIT :> Meth(0, <<Getstatic("Bad", "x"), Putstatic("K", "x"), Return>>))
                @@ ("useBad" :> Meth(0, <<Getstatic("Bad", "x"), Ireturn>>))
                @@ ("useBadSub" :> Meth(0, <<Getstatic("BadSub", "x"), Ireturn>>))
                @@ ("newBad" :> Meth(0, <<New("Bad"), Areturn>>)),
                NoInstMethods)
      [] n = "Orphan" ->
            ClassDecl("Missing", <<>>, FALSE, ("x" :> ValueInt(0)), NoMethods, NoInstMethods)

\* the class path of the interpreter runs, as the loader sees it
ClassFiles == [n \in ClassPath |-> ClassFile(n)]

\* the execute calls the environment makes: (class_name, method_name)
Calls ==
    { <<"A", "get">>, <<"A", "start">>, <<"A", "bad">>, <<"Sub", "get">>,
      <<"A", "arg1">>, <<"A", "lret">>, <<"A", "wrongTag">>, <<"A", "div">>, <<"A", "idivZero">>, <<"A", "iremZero">>,
      <<"A", "ldivZero">>, <<"A", "lremZero">>,
      <<"T", "useBadSub">>, <<"T", "useBase">>, <<"T", "callHelper">>,
      <<"T", "newSub">>, <<"T", "useIfaceField">>, <<"T", "useOrphan">>,
      <<"K", "useBad">>, <<"K", "useBadSub">>, <<"K", "newBad">>,
      <<"Missing", "start">> }

\* the args slice the environment passes with the call c
CallArgs(c) == IF c = <<"A", "arg1">> THEN <<ValueInt(9), ValueInt(8)>> ELSE <<>>

NoCall == <<NoClass, "">>

----------------------------------------------------------------------------
(* Frames *)

\* Frame::new: empty locals and operand stack, code cursor at the first instruction
NewFrame(cls, meth) ==
    [class |-> cls, meth |-> meth, pc |-> 1, locals |-> <<>>, op_stack |-> <<>>]

\* Frame::new_empty: the synthetic bottom frame (dummy class, empty code)
EmptyFrame == NewFrame("dummy", "")

CodeOf(f) ==
    IF f.class = "dummy" THEN <<>> ELSE ClassFile(f.class).static_methods[f.meth].code

Front(s) == SubSeq(s, 1, Len(s) - 1)
Last(s) == s[Len(s)]

\* Thread::current_frame
CurrentFrame == Last(frames)

\* the frame stack with its top frame replaced
WithTop(f) == [frames EXCEPT ![Len(frames)] = f]

PushOperand(f, v) == [f EXCEPT !.op_stack = Append(@, v)]
PopOperand(f) == [f EXCEPT !.op_stack = Front(@)]

RECURSIVE ArgsRev(_, _)
\* the loop of Frame::pop_args: n pops, a Long or Double pushing None and then
\* the value onto args_rev (None is NoValue here, Some(v) is v)
ArgsRev(st, n) ==
    IF n = 0 THEN <<>>
    ELSE (IF Last(st).t \in {"Long", "Double"} THEN <<NoValue, Last(st)>> ELSE <<Last(st)>>)
         \o ArgsRev(Front(st), n - 1)

\* mutant of PopArgs: no argument reaches the callee
PopArgsNone(f, n) == <<>>

\* Frame::pop_args: args_rev reversed
PopArgs(f, n) ==
    LET rev == ArgsRev(f.op_stack, n)
    IN  [i \in 1..Len(rev) |-> rev[Len(rev) + 1 - i]]

\* mutant of DropArgs: the arguments stay on the caller's operand stack
DropArgsKept(f, n) == f

\* the caller frame after Frame::pop_args
DropArgs(f, n) == [f EXCEPT !.op_stack = SubSeq(@, 1, Len(@) - n)]

----------------------------------------------------------------------------
(* Heap *)

\* mutant of NewHeap: no Null sentinel
NewHeapEmpty == <<>>

\* mutant of AllocRefVal: the last entry allocated is replaced
AllocRefValReuse(h, rv) == IF Len(h) > 1 THEN [h EXCEPT ![Len(h)] = rv] ELSE Append(h, rv)

\* Heap::new
NewHeap == << [kind |-> "Null", class |-> NoClass] >>

\* Heap::alloc_ref_val: the heap after the push
AllocRefVal(h, rv) == Append(h, rv)

----------------------------------------------------------------------------
(* Method area *)

\* MethodArea::new
NewMethodArea == [c \in {} |-> [init_state |-> "BeforeInit", static_fields |-> NoFields]]

\* Class::from_class_file: static cells from the class file, state BeforeInit
FromClassFile(n) ==
    [init_state |-> "BeforeInit", static_fields |-> cp[n].static_fields]

\* mutant of ResolveClass: the class is loaded and inserted whether it is
\* registered or not
ResolveClassReloading(reg, n) ==
    IF n \notin DOMAIN cp THEN [ok |-> FALSE, reg |-> reg, loads |-> <<n>>]
    ELSE [ok |-> TRUE, reg |-> (n :> FromClassFile(n)) @@ reg, loads |-> <<n>>]

RECURSIVE ResolveClass(_, _)
RECURSIVE ResolveAll(_, _)

\* MethodArea::resolve_class: [ok, reg, loads], reg the registry afterwards and
\* loads the names given to loader.load in order; the loader fails on a name with
\* no class file under the class path
ResolveClass(reg, n) ==
    IF n \in DOMAIN reg THEN [ok |-> TRUE, reg |-> reg, loads |-> <<>>]
    ELSE IF n \notin DOMAIN cp THEN [ok |-> FALSE, reg |-> reg, loads |-> <<n>>]
    ELSE LET cf == cp[n]
             r1 == IF cf.super_class # NoClass
                   THEN ResolveClass(reg, cf.super_class)
                   ELSE [ok |-> TRUE, reg |-> reg, loads |-> <<>>]
             ra == ResolveAll(r1.reg, cf.interfaces)
             r2 == IF r1.ok THEN [ra EXCEPT !.loads = r1.loads \o @] ELSE r1
         IN  IF r2.ok
             THEN [ok |-> TRUE, reg |-> (n :> FromClassFile(n)) @@ r2.reg,
                   loads |-> <<n>> \o r2.loads]
             ELSE [r2 EXCEPT !.loads = <<n>> \o @]

\* mutant of ResolveAll: the interfaces are taken as resolved without a lookup
ResolveAllSkipped(reg, names) == [ok |-> TRUE, reg |-> reg, loads |-> <<>>]

\* resolve_class on each name in order, stopping at the first failure
ResolveAll(reg, names) ==
    IF names = <<>> THEN [ok |-> TRUE, reg |-> reg, loads |-> <<>>]
    ELSE LET r == ResolveClass(reg, Head(names))
             rest == ResolveAll(r.reg, Tail(names))
         IN  IF r.ok THEN [rest EXCEPT !.loads = r.loads \o @] ELSE r

\* Class::lookup_static_field / lookup_static_method on the class named n
DeclaresStaticField(n, f) == f \in DOMAIN cp[n].static_fields
DeclaresStaticMethod(n, m) == m \in DOMAIN cp[n].static_methods

RECURSIVE FirstDeclaring(_, _)
\* the first name in names whose class declares static field f, or NoClass
FirstDeclaring(names, f) ==
    IF names = <<>> THEN NoClass
    ELSE IF DeclaresStaticField(Head(names), f) THEN Head(names)
    ELSE FirstDeclaring(Tail(names), f)

\* MethodArea::resolve_static_field: [ok, owner], owner the class whose cell is returned
ResolveStaticField(n, f) ==
    LET cf == cp[n]
        viaIface == FirstDeclaring(cf.interfaces, f)
    IN  IF DeclaresStaticField(n, f) THEN [ok |-> TRUE, owner |-> n]
        ELSE IF viaIface # NoClass THEN [ok |-> TRUE, owner |-> viaIface]
        ELSE IF cf.super_class # NoClass /\ DeclaresStaticField(cf.super_class, f)
             THEN [ok |-> TRUE, owner |-> cf.super_class]
        ELSE [ok |-> FALSE, owner |-> NoClass]

RECURSIVE ResolveStaticMethod(_, _)
\* mutant of ResolveStaticMethod: only the class's own static methods are considered
ResolveStaticMethodOwnOnly(n, m) == [ok |-> DeclaresStaticMethod(n, m), owner |-> n]

\* MethodArea::resolve_static_method: [ok, owner], owner the declaring class
ResolveStaticMethod(n, m) ==
    LET cf == cp[n]
    IN  IF cf.is_interface
        THEN [ok |-> DeclaresStaticMethod(n, m), owner |-> n]
        ELSE IF DeclaresStaticMethod(n, m) THEN [ok |-> TRUE, owner |-> n]
        ELSE IF cf.super_class # NoClass
             THEN ResolveStaticMethod(cf.super_class, m)
             ELSE [ok |-> FALSE, owner |-> n]

\* mutant of IsSubclassOf: the superinterfaces are not traversed
IsSubclassOfSuperOnly(n, target) ==
    LET up[c \in DOMAIN cp] ==
            c = target \/ (cp[c].super_class # NoClass /\ up[cp[c].super_class])
    IN  up[n]

RECURSIVE IsSubclassOf(_, _)
\* MethodArea::is_subclass_of
IsSubclassOf(n, target) ==
    \/ n = target
    \/ cp[n].super_class # NoClass /\ IsSubclassOf(cp[n].super_class, target)
    \/ \E i \in 1..Len(cp[n].interfaces) : IsSubclassOf(cp[n].interfaces[i], target)

RECURSIVE CollectAllSuperclasses(_)
\* MethodArea::collect_all_superclasses: sc_set receives only what the recursive
\* calls on the superclass and on each interface return
CollectAllSuperclasses(n) ==
    LET viaSuper == IF cp[n].super_class # NoClass
                    THEN CollectAllSuperclasses(cp[n].super_class) ELSE {}
        viaIfaces == UNION { CollectAllSuperclasses(cp[n].interfaces[i]) :
                                i \in 1..Len(cp[n].interfaces) }
    IN  viaSuper \cup viaIfaces

\* MutValue::default_of_type
DefaultOfType(desc) == IF desc \in {"I", "Z"} THEN ValueInt(0) ELSE ValueReference(0)

\* InstanceFieldIdent of each instance field the class named d declares
FieldIdents(d) == { <<d, f>> : f \in DOMAIN cp[d].inst_fields_info }

\* Object::new: a slot for each instance field of the collected classes and of
\* the base class
ObjectNew(base) ==
    [kind |-> "Object", class |-> base,
     fields |-> [id \in UNION { FieldIdents(d) : d \in CollectAllSuperclasses(base) \cup {base} }
                    |-> DefaultOfType(cp[id[1]].inst_fields_info[id[2]])]]

----------------------------------------------------------------------------
(* Class initialization helpers *)

\* mutant of NeedsInit: a Failed class is initialized again
NeedsInitRetryingFailed(st) == st \in {"BeforeInit", "Failed"}

\* Class::initialize, the guard `let BeforeInit = self.init_state.get() else return Ok(())`
NeedsInit(st) == st = "BeforeInit"

\* mutant of InitResultState: the Ok branch does not record Succeeded
InitResultStateNotRecorded(res) == IF res = "ok" THEN "InProgress" ELSE "Failed"

\* Class::initialize, the state set from exec_class_initialization's result
InitResultState(res) == IF res = "ok" THEN "Succeeded" ELSE "Failed"

\* mutant of PickDefaultIfaces: every superinterface is picked
PickEveryIface(names) == names

\* the interfaces in names that declare a non-abstract instance method
RECURSIVE PickDefaultIfaces(_)
PickDefaultIfaces(names) ==
    IF names = <<>> THEN <<>>
    ELSE LET im == ClassFile(Head(names)).inst_methods
             rest == PickDefaultIfaces(Tail(names))
         IN  IF \E m \in DOMAIN im : ~im[m].abstract
             THEN <<Head(names)>> \o rest
             ELSE rest

\* Class::superclasses_to_be_initialized: the superclass, then the picked interfaces
SuperclassesToBeInitialized(n) ==
    LET cf == ClassFile(n)
    IN  (IF cf.super_class # NoClass THEN <<cf.super_class>> ELSE <<>>)
        \o PickDefaultIfaces(cf.interfaces)

\* the classes Class::initialize initializes before running <clinit>
InitTodo(n) ==
    IF ClassFile(n).is_interface THEN <<>> ELSE SuperclassesToBeInitialized(n)

----------------------------------------------------------------------------
(* The Rust call stack and the history event *)

Ctl(k, cls, tag, name, todo, depth) ==
    [k |-> k, cls |-> cls, tag |-> tag, name |-> name, todo |-> todo, depth |-> depth]

\* a call of Thread::exec_bootstrap_method about to start; tag is "clinit" or "main"
BootCall(cls, meth, phase) == Ctl("bootcall", cls, phase, meth, <<>>, 0)
\* the dispatch loop of exec_bootstrap_method
Boot(phase) == Ctl("boot", NoClass, phase, "", <<>>, 0)
\* a call of Class::initialize about to start
InitCall(cls) == Ctl("call", cls, "", "", <<>>, 0)
\* Class::initialize inside its loop over superclasses_to_be_initialized
InitLoop(cls, todo) == Ctl("init", cls, "", "", todo, 0)
\* Class::initialize inside exec_class_initialization's dispatch loop
ExecClinit(cls, depth) == Ctl("xclinit", cls, "", "", <<>>, depth)
\* an instruction handler waiting for Class::initialize to return
InstrWait(i) == Ctl("instr", i.cls, i.op, i.name, <<>>, 0)

Top == Last(ctl)

Event(e, cls, res, pre, op) == [e |-> e, cls |-> cls, res |-> res, pre |-> pre, op |-> op]
NoEvent == Event("none", NoClass, "", "", "")
\* Class::initialize(cls) returned res; pre is the state it found on entry
InitReturned(cls, res, pre) == Event("init_ret", cls, res, pre, "")
\* a <clinit> frame of cls was pushed, by "execute" or by "initialize"
ClinitStarted(cls, by) == Event("clinit_start", cls, "", "", by)
\* op touched class cls: a static cell read or written, a frame pushed, an object allocated
Accessed(op, cls) == Event("access", cls, "", "", op)

Outcome(kind, v) == [kind |-> kind, v |-> v]
NoOutcome == Outcome("None", NoValue)

SetState(reg, c, st) == [reg EXCEPT ![c].init_state = st]

\* no direct call made yet
NoLookup == [fn |-> "none"]

----------------------------------------------------------------------------
\* a new VM: Thread::new, MethodArea::new, Heap::new, no call made
Fresh ==
    /\ frames = <<>>
    /\ classes = NewMethodArea
    /\ heap = NewHeap
    /\ ctl = <<>>
    /\ ret = "none"
    /\ vm = "idle"
    /\ call = NoCall
    /\ result = NoOutcome
    /\ n_exec = 0
    /\ first = [call |-> NoCall, result |-> NoOutcome]
    /\ clinit_runs = [c \in ClassPath |-> 0]
    /\ ev = NoEvent

Init ==
    /\ Fresh
    /\ cp = ClassFiles
    /\ q = NoLookup

\* a Rust panic inside execute: the call never returns
Panic ==
    /\ vm' = "panicked"
    /\ result' = Outcome("Panic", NoValue)
    /\ first' = IF n_exec = 1 THEN [call |-> call, result |-> Outcome("Panic", NoValue)] ELSE first
    /\ ev' = Event("panic", NoClass, "", "", "")
    /\ UNCHANGED <<frames, classes, heap, ctl, ret, call, n_exec, clinit_runs>>

\* VM::execute returns outcome o to its caller; its locals (the method area and
\* the heap of this execution) are dropped
Returns(o) ==
    /\ vm' = "idle"
    /\ classes' = NewMethodArea
    /\ heap' = NewHeap
    /\ result' = o
    /\ first' = IF n_exec = 1 THEN [call |-> call, result |-> o] ELSE first
    /\ ctl' = <<>>
    /\ ret' = "none"
    /\ ev' = Event("exec_ret", NoClass, "", "", "")

\* VM::execute up to its first exec_bootstrap_method call
Execute(cn, mn) ==
    /\ UNCHANGED <<cp, q>>
    /\ vm = "idle"
    /\ n_exec < MaxExecutes
    /\ classes' = NewMethodArea
    /\ heap' = NewHeap
    /\ frames' = Append(frames, EmptyFrame)
    /\ ctl' = <<BootCall(cn, CLINIT, "clinit")>>
    /\ ret' = "none"
    /\ vm' = "running"
    /\ call' = <<cn, mn>>
    /\ result' = NoOutcome
    /\ n_exec' = n_exec + 1
    /\ clinit_runs' = [c \in ClassPath |-> 0]
    /\ ev' = Event("exec_call", cn, "", "", "")
    /\ UNCHANGED first

\* what the call fn made of resolve_class on the names, as the last direct use of
\* the method area
Resolved(fn, cls, r) == [fn |-> fn, cls |-> cls, ok |-> r.ok, loads |-> r.loads]

\* Thread::exec_bootstrap_method up to its dispatch loop
ExecBootstrapMethod ==
    /\ UNCHANGED cp
    /\ vm = "running" /\ ret = "none" /\ ctl # <<>> /\ Top.k = "bootcall"
    /\ q' = Resolved("resolve_class", Top.cls, ResolveClass(classes, Top.cls))
    /\ LET cn == Top.cls
           mn == Top.name
           r == ResolveClass(classes, cn)
           found == r.ok /\ DeclaresStaticMethod(cn, mn)
           n == ClassFile(cn).static_methods[mn].nargs
           caller == CurrentFrame
       IN  IF ~found
           THEN /\ classes' = r.reg
                /\ ctl' = <<Boot(Top.tag)>>
                /\ ret' = "err"
                /\ ev' = NoEvent
                /\ UNCHANGED <<frames, heap, vm, call, result, n_exec, first, clinit_runs>>
           ELSE IF Len(caller.op_stack) < n
           THEN Panic
           ELSE /\ classes' = r.reg
                /\ frames' = Append(WithTop(DropArgs(caller, n)),
                                    [NewFrame(cn, mn) EXCEPT !.locals = PopArgs(caller, n)])
                /\ ctl' = <<Boot(Top.tag)>>
                /\ clinit_runs' = IF mn = CLINIT
                                  THEN [clinit_runs EXCEPT ![cn] = @ + 1]
                                  ELSE clinit_runs
                /\ ev' = IF mn = CLINIT THEN ClinitStarted(cn, "execute") ELSE NoEvent
                /\ UNCHANGED <<heap, ret, vm, call, result, n_exec, first>>

\* VM::execute after its first exec_bootstrap_method call (result ignored):
\* pop one frame, push the bootstrap frame, call exec_bootstrap_method again
ExecuteAfterClinit ==
    /\ UNCHANGED <<cp, q>>
    /\ vm = "running" /\ ctl # <<>> /\ Top.k = "boot" /\ Top.tag = "clinit"
    /\ ret = "err" \/ (ret = "none" /\ Len(frames) = 1)
    /\ frames' = Append(Front(frames), [EmptyFrame EXCEPT !.op_stack = CallArgs(call)])
    /\ ctl' = <<BootCall(call[1], call[2], "main")>>
    /\ ret' = "none"
    /\ ev' = NoEvent
    /\ UNCHANGED <<classes, heap, vm, call, result, n_exec, first, clinit_runs>>

\* VM::execute after its second exec_bootstrap_method call: `?`, pop the result
ExecuteReturn ==
    /\ UNCHANGED <<cp, q>>
    /\ vm = "running" /\ ctl # <<>> /\ Top.k = "boot" /\ Top.tag = "main"
    /\ ret = "err" \/ (ret = "none" /\ Len(frames) = 1)
    /\ IF ret = "err"
       THEN /\ Returns(Outcome("Err", NoValue))
            /\ UNCHANGED <<frames, call, n_exec, clinit_runs>>
       ELSE IF CurrentFrame.op_stack = <<>>
       THEN Panic
       ELSE /\ Returns(Outcome("Ok", Last(CurrentFrame.op_stack)))
            /\ frames' = Front(frames)
            /\ UNCHANGED <<call, n_exec, clinit_runs>>

----------------------------------------------------------------------------
(* The dispatch loops and exec_instr *)

\* mutant of LoopBreaks: both loops wait for the bootstrap frame
LoopBreaksAtOne == Len(frames) = 1

\* the loop's exit test: exec_bootstrap_method `frames.len() == 1`,
\* exec_class_initialization `frames.len() == orig_depth`
LoopBreaks ==
    IF Top.k = "boot" THEN Len(frames) = 1 ELSE Len(frames) = Top.depth

\* a dispatch loop is about to call exec_instr
Dispatching ==
    /\ vm = "running" /\ ret = "none" /\ ctl # <<>>
    /\ Top.k \in {"boot", "xclinit"}
    /\ ~LoopBreaks

\* Frame::next_instruction would read past the end of the code
AtCodeEnd == CurrentFrame.pc > Len(CodeOf(CurrentFrame))

\* the instruction exec_instr decodes
Instr == CodeOf(CurrentFrame)[CurrentFrame.pc]

\* the current frame after the instruction and its operand bytes were read
Decoded == [CurrentFrame EXCEPT !.pc = @ + 1]

\* exec_instr on a frame whose code is exhausted: ByteSeq::read_u8 indexes out of bounds
DecodePastEnd ==
    /\ UNCHANGED <<cp, q>>
    /\ Dispatching /\ AtCodeEnd
    /\ Panic

\* exec_instr on an opcode without a table entry: Err
InstrUnimplemented ==
    /\ UNCHANGED <<cp, q>>
    /\ Dispatching /\ ~AtCodeEnd /\ Instr.op = "unimpl"
    /\ frames' = WithTop(Decoded)
    /\ ret' = "err"
    /\ ev' = NoEvent
    /\ UNCHANGED <<classes, heap, ctl, vm, call, result, n_exec, first, clinit_runs>>

\* instr_iconst and instr_lconst
InstrIconst ==
    /\ UNCHANGED <<cp, q>>
    /\ Dispatching /\ ~AtCodeEnd /\ Instr.op \in {"iconst", "lconst"}
    /\ frames' = WithTop(PushOperand(Decoded, [t |-> IF Instr.op = "iconst" THEN "Int" ELSE "Long",
                                               v |-> Instr.k]))
    /\ ev' = NoEvent
    /\ UNCHANGED <<classes, heap, ctl, ret, vm, call, result, n_exec, first, clinit_runs>>

\* the $vtype of the instr_binary_op! instances with / and % on integers
DivOps == [idiv |-> "Int", irem |-> "Int", ldiv |-> "Long", lrem |-> "Long"]

\* instr_idiv, instr_irem, instr_ldiv, instr_lrem: lhs / rhs and lhs % rhs of the
\* integer types round toward zero and panic on a zero divisor
InstrBinaryOp ==
    /\ UNCHANGED <<cp, q>>
    /\ Dispatching /\ ~AtCodeEnd /\ Instr.op \in DOMAIN DivOps
    /\ LET st == CurrentFrame.op_stack
           n == Len(st)
           rhs == st[n]
           lhs == st[n - 1]
           abs(x) == IF x < 0 THEN -x ELSE x
           quot == (IF (lhs.v < 0) = (rhs.v < 0) THEN 1 ELSE -1) * (abs(lhs.v) \div abs(rhs.v))
           err(pops) ==
               /\ frames' = WithTop([Decoded EXCEPT !.op_stack = SubSeq(st, 1, n - pops)])
               /\ ret' = "err"
               /\ ev' = NoEvent
               /\ UNCHANGED <<classes, heap, ctl, vm, call, result, n_exec, first, clinit_runs>>
       IN  IF n = 0 THEN Panic
           ELSE IF rhs.t # DivOps[Instr.op] THEN err(1)
           ELSE IF n = 1 THEN Panic
           ELSE IF lhs.t # DivOps[Instr.op] THEN err(2)
           ELSE IF rhs.v = 0 THEN Panic
           ELSE /\ frames' = WithTop(PushOperand(
                        [Decoded EXCEPT !.op_stack = SubSeq(st, 1, n - 2)],
                        [t |-> lhs.t,
                         v |-> IF Instr.op \in {"idiv", "ldiv"} THEN quot
                               ELSE lhs.v - rhs.v * quot]))
                /\ ev' = NoEvent
                /\ UNCHANGED <<classes, heap, ctl, ret, vm, call, result, n_exec, first, clinit_runs>>

\* instr_return (void)
InstrReturn ==
    /\ UNCHANGED <<cp, q>>
    /\ Dispatching /\ ~AtCodeEnd /\ Instr.op = "return"
    /\ frames' = Front(frames)
    /\ ev' = NoEvent
    /\ UNCHANGED <<classes, heap, ctl, ret, vm, call, result, n_exec, first, clinit_runs>>

\* mutant of ReturnTag: every typed return expects an int
ReturnTagInt(op) == "Int"

\* the $vtype of the instr_return! instances
ReturnTag(op) ==
    CASE op = "ireturn" -> "Int" [] op = "lreturn" -> "Long" [] op = "freturn" -> "Float"
      [] op = "dreturn" -> "Double" [] op = "areturn" -> "Reference"

\* instr_ireturn / instr_lreturn / instr_freturn / instr_dreturn / instr_areturn
InstrTypedReturn ==
    /\ UNCHANGED <<cp, q>>
    /\ Dispatching /\ ~AtCodeEnd
    /\ Instr.op \in {"ireturn", "lreturn", "freturn", "dreturn", "areturn"}
    /\ IF CurrentFrame.op_stack = <<>>
       THEN Panic
       ELSE LET v == Last(CurrentFrame.op_stack)
            IN  IF v.t # ReturnTag(Instr.op)
                THEN /\ frames' = WithTop(PopOperand(Decoded))
                     /\ ret' = "err"
                     /\ ev' = NoEvent
                     /\ UNCHANGED <<classes, heap, ctl, vm, call, result, n_exec, first,
                                    clinit_runs>>
                ELSE LET below == Front(frames)
                     IN  /\ frames' = [below EXCEPT ![Len(below)] = PushOperand(@, v)]
                         /\ ev' = NoEvent
                         /\ UNCHANGED <<classes, heap, ctl, ret, vm, call, result, n_exec,
                                        first, clinit_runs>>

\* instr_getstatic / instr_putstatic / instr_invokestatic / instr_new up to the
\* call of Class::initialize: read the operand, resolve the class
InstrResolve ==
    /\ UNCHANGED cp
    /\ Dispatching /\ ~AtCodeEnd
    /\ Instr.op \in {"getstatic", "putstatic", "invokestatic", "new"}
    /\ q' = Resolved("resolve_class", Instr.cls, ResolveClass(classes, Instr.cls))
    /\ LET r == ResolveClass(classes, Instr.cls)
       IN  /\ classes' = r.reg
           /\ frames' = WithTop(Decoded)
           /\ IF r.ok
              THEN /\ ctl' = ctl \o <<InstrWait(Instr), InitCall(Instr.cls)>>
                   /\ ret' = "none"
              ELSE /\ ret' = "err"
                   /\ UNCHANGED ctl
           /\ ev' = NoEvent
           /\ UNCHANGED <<heap, vm, call, result, n_exec, first, clinit_runs>>

----------------------------------------------------------------------------
(* Class::initialize *)

\* Class::initialize from its entry to its first callee
Initialize ==
    /\ UNCHANGED cp
    /\ vm = "running" /\ ret = "none" /\ ctl # <<>> /\ Top.k = "call"
    /\ LET c == Top.cls
           st == classes[c].init_state
           \* superclasses_to_be_initialized resolves the superclass and every interface
           cf == ClassFile(c)
           names == (IF cf.super_class # NoClass THEN <<cf.super_class>> ELSE <<>>)
                    \o cf.interfaces
           r == IF cf.is_interface THEN [ok |-> TRUE, reg |-> classes, loads |-> <<>>]
                ELSE ResolveAll(classes, names)
       IN  /\ q' = IF NeedsInit(st) /\ ~cf.is_interface
                   THEN Resolved("superclasses_to_be_initialized", c, r) ELSE q
           /\ IF ~NeedsInit(st)
               THEN /\ ctl' = Front(ctl)
                    /\ ret' = "ok"
                    /\ ev' = InitReturned(c, "ok", st)
                    /\ UNCHANGED <<frames, classes, heap, vm, call, result, n_exec, first,
                                   clinit_runs>>
               ELSE IF ~r.ok
               THEN /\ classes' = SetState(r.reg, c, "InProgress")
                    /\ ctl' = Front(ctl)
                    /\ ret' = "err"
                    /\ ev' = InitReturned(c, "err", st)
                    /\ UNCHANGED <<frames, heap, vm, call, result, n_exec, first, clinit_runs>>
               ELSE /\ classes' = SetState(r.reg, c, "InProgress")
                    /\ ctl' = Front(ctl) \o <<InitLoop(c, InitTodo(c))>>
                    /\ ev' = NoEvent
                    /\ UNCHANGED <<frames, heap, ret, vm, call, result, n_exec, first,
                                   clinit_runs>>

\* Class::initialize: the next `sc.initialize(...)` of its loop
InitializeSuper ==
    /\ UNCHANGED <<cp, q>>
    /\ vm = "running" /\ ret = "none" /\ ctl # <<>> /\ Top.k = "init"
    /\ Top.todo # <<>>
    /\ ctl' = Front(ctl) \o <<InitLoop(Top.cls, Tail(Top.todo)), InitCall(Head(Top.todo))>>
    /\ ev' = NoEvent
    /\ UNCHANGED <<frames, classes, heap, ret, vm, call, result, n_exec, first, clinit_runs>>

\* Class::initialize: `sc.initialize(...)?` returned
InitializeSuperReturned ==
    /\ UNCHANGED <<cp, q>>
    /\ vm = "running" /\ ret # "none" /\ ctl # <<>> /\ Top.k = "init"
    /\ IF ret = "ok"
       THEN /\ ret' = "none"
            /\ ev' = NoEvent
            /\ UNCHANGED ctl
       ELSE /\ ctl' = Front(ctl)
            /\ ev' = InitReturned(Top.cls, "err", "BeforeInit")
            /\ UNCHANGED ret
    /\ UNCHANGED <<frames, classes, heap, vm, call, result, n_exec, first, clinit_runs>>

\* Class::initialize calls Thread::exec_class_initialization, which either
\* returns Ok at once (no <clinit>) or pushes the <clinit> frame and loops
ExecClassInitialization ==
    /\ UNCHANGED <<cp, q>>
    /\ vm = "running" /\ ret = "none" /\ ctl # <<>> /\ Top.k = "init"
    /\ Top.todo = <<>>
    /\ LET c == Top.cls
       IN  IF ~DeclaresStaticMethod(c, CLINIT)
           THEN /\ classes' = SetState(classes, c, InitResultState("ok"))
                /\ ctl' = Front(ctl)
                /\ ret' = "ok"
                /\ ev' = InitReturned(c, "ok", "BeforeInit")
                /\ UNCHANGED <<frames, heap, vm, call, result, n_exec, first, clinit_runs>>
           ELSE /\ frames' = Append(frames, NewFrame(c, CLINIT))
                /\ ctl' = Front(ctl) \o <<ExecClinit(c, Len(frames))>>
                /\ clinit_runs' = [clinit_runs EXCEPT ![c] = @ + 1]
                /\ ev' = ClinitStarted(c, "initialize")
                /\ UNCHANGED <<classes, heap, ret, vm, call, result, n_exec, first>>

\* exec_class_initialization returns (loop exit, or an instruction's Err) and
\* Class::initialize records the result in init_state
InitializeReturn ==
    /\ UNCHANGED <<cp, q>>
    /\ vm = "running" /\ ctl # <<>> /\ Top.k = "xclinit"
    /\ ret = "err" \/ (ret = "none" /\ LoopBreaks)
    /\ LET res == IF ret = "err" THEN "err" ELSE "ok"
       IN  /\ classes' = SetState(classes, Top.cls, InitResultState(res))
           /\ ctl' = Front(ctl)
           /\ ret' = res
           /\ ev' = InitReturned(Top.cls, res, "BeforeInit")
    /\ UNCHANGED <<frames, heap, vm, call, result, n_exec, first, clinit_runs>>

----------------------------------------------------------------------------
(* The instructions after Class::initialize returned *)

\* `cls.initialize(t, meth_area, heap)?` returned Err: the handler returns it
InstrInitFailed ==
    /\ UNCHANGED <<cp, q>>
    /\ vm = "running" /\ ret = "err" /\ ctl # <<>> /\ Top.k = "instr"
    /\ ctl' = Front(ctl)
    /\ ev' = NoEvent
    /\ UNCHANGED <<frames, classes, heap, ret, vm, call, result, n_exec, first, clinit_runs>>

InstrResumes(op) ==
    vm = "running" /\ ret = "ok" /\ ctl # <<>> /\ Top.k = "instr" /\ Top.tag = op

\* instr_getstatic after initialize: resolve the field, push its value
InstrGetstatic ==
    /\ UNCHANGED <<cp, q>>
    /\ InstrResumes("getstatic")
    /\ LET f == ResolveStaticField(Top.cls, Top.name)
       IN  IF ~f.ok
           THEN /\ ret' = "err"
                /\ ev' = NoEvent
                /\ UNCHANGED frames
           ELSE /\ frames' = WithTop(PushOperand(CurrentFrame,
                                        classes[f.owner].static_fields[Top.name]))
                /\ ret' = "none"
                /\ ev' = Accessed("getstatic", Top.cls)
    /\ ctl' = Front(ctl)
    /\ UNCHANGED <<classes, heap, vm, call, result, n_exec, first, clinit_runs>>

\* instr_putstatic after initialize: resolve the field, pop the value into it
InstrPutstatic ==
    /\ UNCHANGED <<cp, q>>
    /\ InstrResumes("putstatic")
    /\ LET f == ResolveStaticField(Top.cls, Top.name)
       IN  IF ~f.ok
           THEN /\ ret' = "err"
                /\ ctl' = Front(ctl)
                /\ ev' = NoEvent
                /\ UNCHANGED <<frames, classes, heap, vm, call, result, n_exec, first,
                               clinit_runs>>
           ELSE IF CurrentFrame.op_stack = <<>>
           THEN Panic
           ELSE /\ classes' = [classes EXCEPT ![f.owner].static_fields[Top.name] =
                                   Last(CurrentFrame.op_stack)]
                /\ frames' = WithTop(PopOperand(CurrentFrame))
                /\ ret' = "none"
                /\ ctl' = Front(ctl)
                /\ ev' = Accessed("putstatic", Top.cls)
                /\ UNCHANGED <<heap, vm, call, result, n_exec, first, clinit_runs>>

\* instr_invokestatic after initialize: resolve the method, build the callee
\* frame, transfer the arguments, push
InstrInvokestatic ==
    /\ UNCHANGED <<cp, q>>
    /\ InstrResumes("invokestatic")
    /\ LET m == ResolveStaticMethod(Top.cls, Top.name)
           n == ClassFile(m.owner).static_methods[Top.name].nargs
           caller == CurrentFrame
       IN  IF ~m.ok
           THEN /\ ret' = "err"
                /\ ctl' = Front(ctl)
                /\ ev' = NoEvent
                /\ UNCHANGED <<frames, classes, heap, vm, call, result, n_exec, first,
                               clinit_runs>>
           ELSE IF Len(caller.op_stack) < n
           THEN Panic
           ELSE /\ frames' = Append(WithTop(DropArgs(caller, n)),
                                    [NewFrame(m.owner, Top.name) EXCEPT
                                        !.locals = PopArgs(caller, n)])
                /\ ret' = "none"
                /\ ctl' = Front(ctl)
                /\ ev' = Accessed("invokestatic", Top.cls)
                /\ UNCHANGED <<classes, heap, vm, call, result, n_exec, first, clinit_runs>>

\* instr_new after initialize: allocate the object, push its reference
InstrNew ==
    /\ UNCHANGED <<cp, q>>
    /\ InstrResumes("new")
    /\ heap' = AllocRefVal(heap, ObjectNew(Top.cls))
    /\ frames' = WithTop(PushOperand(CurrentFrame, ValueReference(Len(heap') - 1)))
    /\ ret' = "none"
    /\ ctl' = Front(ctl)
    /\ ev' = Accessed("new", Top.cls)
    /\ UNCHANGED <<classes, vm, call, result, n_exec, first, clinit_runs>>

----------------------------------------------------------------------------
Next ==
    \/ \E c \in Calls : Execute(c[1], c[2])
    \/ ExecBootstrapMethod
    \/ ExecuteAfterClinit
    \/ ExecuteReturn
    \/ DecodePastEnd
    \/ InstrUnimplemented
    \/ InstrIconst
    \/ InstrBinaryOp
    \/ InstrReturn
    \/ InstrTypedReturn
    \/ InstrResolve
    \/ Initialize
    \/ InitializeSuper
    \/ InitializeSuperReturned
    \/ ExecClassInitialization
    \/ InitializeReturn
    \/ InstrInitFailed
    \/ InstrGetstatic
    \/ InstrPutstatic
    \/ InstrInvokestatic
    \/ InstrNew

Spec == Init /\ [][Next]_vars

----------------------------------------------------------------------------
(* Properties *)

\* C1: within one execute call the <clinit> of any class is run at most once
C1_ClinitAtMostOnce ==
    \A c \in ClassPath : clinit_runs[c] <= 1

C3_ErrImpliesFailed ==
    (ev.e = "init_ret" /\ ev.res = "err") => classes[ev.cls].init_state = "Failed"

\* C4: once a class is Failed, a later initialize on it returns an error and
\* the field access, call or allocation is not performed
C4_FailedFailsFast ==
    /\ (ev.e = "init_ret" /\ ev.pre = "Failed") => ev.res = "err"
    /\ ev.e = "access" => classes[ev.cls].init_state # "Failed"

AllowedTransition(a, b) ==
    \/ a = b
    \/ a = "BeforeInit" /\ b = "InProgress"
    \/ a = "InProgress" /\ b \in {"Succeeded", "Failed"}

\* some Class::initialize activation on class c is on the call stack
Initializing(c, stack) ==
    \E i \in DOMAIN stack : stack[i].k \in {"init", "xclinit"} /\ stack[i].cls = c

\* C5: init states change only along BeforeInit -> InProgress -> Succeeded | Failed,
\* Succeeded and Failed never change, and no class is InProgress once the
\* outermost initialize call on it has returned
C5_InitStateMachine ==
    [][ /\ \A c \in DOMAIN classes \cap DOMAIN classes' :
               AllowedTransition(classes[c].init_state, classes'[c].init_state)
        /\ \A c \in DOMAIN classes' :
               classes'[c].init_state = "InProgress" => Initializing(c, ctl') ]_vars

\* a call of Class::initialize on a class that is not BeforeInit is about to run
NoopInitializeCall ==
    /\ vm = "running" /\ ret = "none" /\ ctl # <<>> /\ Top.k = "call"
    /\ classes[Top.cls].init_state # "BeforeInit"

\* C6: Class::initialize on a class whose state is not BeforeInit returns Ok at
\* once: no init state changes, no frame is pushed, no instruction runs, no class
\* is resolved
C6_InitializeNoop ==
    [][ NoopInitializeCall =>
            /\ ctl' = Front(ctl)
            /\ ret' = "ok"
            /\ UNCHANGED <<frames, classes, heap, clinit_runs>> ]_vars

\* C6 witness: initialize returned from a class it found InProgress, and from one
\* it found Failed
C6_Witness ==
    /\ ev.e = "init_ret" /\ ev.res = "ok"
    /\ ev.pre \in {"InProgress", "Failed"}
    /\ classes[ev.cls].init_state = ev.pre

\* C7: whenever getstatic/putstatic touches a static field through a reference
\* naming C, invokestatic pushes a frame for a reference naming C, or new
\* allocates a C, the state of C is InProgress or Succeeded
C7_AccessAfterInitStarted ==
    ev.e = "access" => classes[ev.cls].init_state \in {"InProgress", "Succeeded"}

\* the classes Class::initialize must have initialized before the <clinit> of c:
\* the superclass and the superinterfaces declaring a non-abstract instance method
RequiredSupers(c) ==
    LET cf == ClassFile(c)
    IN  (IF cf.super_class # NoClass THEN {cf.super_class} ELSE {})
        \cup { i \in { cf.interfaces[j] : j \in DOMAIN cf.interfaces } :
                   \E m \in DOMAIN ClassFile(i).inst_methods :
                       ~ClassFile(i).inst_methods[m].abstract }

\* Class::initialize starts the <clinit> of a non-interface class
ClinitStartsByInitialize ==
    ev.e = "clinit_start" /\ ev.op = "initialize" /\ ~ClassFile(ev.cls).is_interface

InitializesSuper ==
    /\ ctl # <<>> /\ Top.k = "init"
    /\ ctl' # <<>> /\ Last(ctl').k = "call"

C9_FramesEmptyOnReturn ==
    (vm = "idle" /\ result.kind \in {"Ok", "Err"}) => frames = <<>>

\* C10: the outcome of an execute call equals the outcome of the same call on a
\* fresh VM (here: the first call made on this VM)
C10_SameAsFresh ==
    (vm # "running" /\ n_exec >= 1 /\ call = first.call) => result = first.result
----------------------------------------------------------------------------
(* Class hierarchies for direct calls of the method-area functions.  The   *)
(* class chain is Q extends P extends java/lang/Object; I, J and K are     *)
(* interfaces (their class files name java/lang/Object as the superclass). *)
(* A shape gives the interfaces lists; a class file declares either all of *)
(* static field f, static method s, instance method m and (classes only)   *)
(* instance field g of type int, or none of them.                          *)

Obj == "java/lang/Object"
LookupTypes == {Obj, "P", "Q", "I", "J", "K"}
Interfaces == {"I", "J", "K"}

Shapes ==
    { [P |-> <<>>,    Q |-> <<"I">>,      I |-> <<"J">>,      J |-> <<"K">>],
      [P |-> <<>>,    Q |-> <<"I", "J">>, I |-> <<"K">>,      J |-> <<"K">>],
      [P |-> <<"I">>, Q |-> <<"J">>,      I |-> <<>>,         J |-> <<>>],
      [P |-> <<"I">>, Q |-> <<"J">>,      I |-> <<>>,         J |-> <<"I">>],
      [P |-> <<>>,    Q |-> <<"I", "J">>, I |-> <<"J">>,      J |-> <<>>],
      [P |-> <<"K">>, Q |-> <<>>,         I |-> <<"J", "K">>, J |-> <<>>] }

\* MethodAccessFlags of a declared instance method m
MethodKinds == {"public", "abstract", "private", "protected"}
AccessFlags(kind) ==
    [abstract |-> kind = "abstract", private |-> kind = "private",
     public |-> kind \in {"public", "abstract"}]

\* the class file of type t: Class::from_class_file splits the fields and methods
\* into static_fields, inst_fields_info, static_methods and inst_methods
HierarchyFile(shape, t, declares, kind) ==
    [super_class |-> CASE t = Obj -> NoClass [] t = "Q" -> "P" [] OTHER -> Obj,
     interfaces |-> IF t \in DOMAIN shape THEN shape[t] ELSE <<>>,
     is_interface |-> t \in Interfaces,
     static_fields |-> IF declares THEN ("f" :> ValueInt(0)) ELSE NoFields,
     static_methods |-> IF declares THEN ("s" :> Meth(0, <<Return>>)) ELSE NoMethods,
     inst_methods |-> IF declares THEN ("m" :> AccessFlags(kind))
                      ELSE [m \in {} |-> AccessFlags("public")],
     inst_fields_info |-> IF declares /\ t \notin Interfaces THEN ("g" :> "I")
                          ELSE [g \in {} |-> "I"]]

\* the class files of the types in present; those in D declare the members, the
\* method m of type odd has the flags of kind, every other m is public
Hierarchy(shape, present, D, odd, kind) ==
    [t \in present |->
        HierarchyFile(shape, t, t \in D, IF t = odd THEN kind ELSE "public")]

----------------------------------------------------------------------------
(* Direct calls of MethodArea::resolve_class on a fresh method area, over  *)
(* class paths from which up to MaxAbsent class files are missing.         *)

MaxAbsent == 2

ResolveInit ==
    /\ Fresh
    /\ q = NoLookup
    /\ \E shape \in Shapes, absent \in SUBSET LookupTypes :
          /\ Cardinality(absent) <= MaxAbsent
          /\ cp = Hierarchy(shape, LookupTypes \ absent, {}, NoClass, "public")

\* meth_area.resolve_class(n): the registry keeps whatever the call inserted
ResolveClassCall(n) ==
    /\ LET r == ResolveClass(classes, n)
       IN  /\ classes' = r.reg
           /\ q' = [fn |-> "resolve_class", cls |-> n, ok |-> r.ok, loads |-> r.loads]
    /\ UNCHANGED <<frames, heap, ctl, ret, vm, call, result, n_exec, first, clinit_runs, ev, cp>>

\* meth_area.is_subclass_of(n, target): the class must have been resolved, the
\* target is any name
IsSubclassOfCall(n, target) ==
    /\ IF n \in DOMAIN classes
       THEN /\ q' = [fn |-> "is_subclass_of", cls |-> n, target |-> target,
                     ok |-> IsSubclassOf(n, target)]
            /\ vm' = vm
       ELSE /\ q' = [fn |-> "is_subclass_of", cls |-> n, target |-> target, ok |-> FALSE]
            /\ vm' = "panicked"
    /\ UNCHANGED <<frames, classes, heap, ctl, ret, call, result, n_exec, first, clinit_runs, ev, cp>>

ResolveNext ==
    /\ vm # "panicked"
    /\ \/ \E n \in LookupTypes : ResolveClassCall(n)
       \/ \E n \in LookupTypes, target \in LookupTypes : IsSubclassOfCall(n, target)

SpecResolve == ResolveInit /\ [][ResolveNext]_vars

\* the names a registered class refers to as its superclass and interfaces
SuperNames(c) ==
    (IF cp[c].super_class # NoClass THEN {cp[c].super_class} ELSE {})
    \cup {cp[c].interfaces[i] : i \in 1..Len(cp[c].interfaces)}

\* C11: in every reachable state of the method area, the superclass name and every
\* interface name of every registered class are keys of the registry, whatever
\* sequence of successful and failed resolve_class calls led there
C11_RegistryClosed == \A c \in DOMAIN classes : SuperNames(c) \subseteq DOMAIN classes

\* a resolve_class call failed after it had registered the superclass of its
\* class, and an earlier call registered a class with interfaces
C11_Witness ==
    /\ q.fn = "resolve_class" /\ ~q.ok
    /\ q.cls \in DOMAIN cp /\ cp[q.cls].super_class \in DOMAIN classes
    /\ \E c \in DOMAIN classes : cp[c].interfaces # <<>>

----------------------------------------------------------------------------
(* Objects on the heap and the instructions getfield and putfield, run on  *)
(* one frame over every class path in which some of java/lang/Object, P    *)
(* and Q declare the instance field g of type int.                         *)

\* objects allocated on one heap
MaxObjects == 1
\* operands on the frame's stack
MaxOperands == 2

\* RefValue at reference r (Heap::get), a Null record when r is out of range
HeapGet(h, r) == IF r + 1 \in DOMAIN h THEN h[r + 1] ELSE [kind |-> "None", class |-> NoClass]

\* the slots obj.get_field(&fld_name) can return: getfield and putfield pass the
\* field's name only, never the class named by the Fieldref
SlotsNamed(rv, name) ==
    IF rv.kind = "Object" THEN { id \in DOMAIN rv.fields : id[2] = name } ELSE {}

ObjFrame == frames[1]

ObjInit ==
    /\ frames = <<EmptyFrame>>
    /\ heap = NewHeap
    /\ ctl = <<>> /\ ret = "none" /\ vm = "idle" /\ call = NoCall
    /\ result = NoOutcome /\ n_exec = 0
    /\ first = [call |-> NoCall, result |-> NoOutcome]
    /\ clinit_runs = [c \in ClassPath |-> 0]
    /\ ev = NoEvent
    /\ q = NoLookup
    /\ \E D \in SUBSET {Obj, "P", "Q"} :
          /\ cp = Hierarchy(CHOOSE s \in Shapes : s.P = <<"I">> /\ s.J = <<>>,
                            LookupTypes, D, NoClass, "public")
          /\ classes = ResolveClass(NewMethodArea, "Q").reg

\* the instruction before returned Err or panicked: the dispatch loop has ended
ObjStopped == q.fn # "none" /\ q.res # "ok"

ObjUnchanged == UNCHANGED <<classes, ctl, ret, vm, call, result, n_exec, first, clinit_runs, ev, cp>>

\* heap.alloc_object(cls, meth_area) on a resolved class, the reference pushed
AllocObject(c) ==
    /\ ~ObjStopped /\ c \in DOMAIN classes
    /\ Len(heap) <= MaxObjects /\ Len(ObjFrame.op_stack) < MaxOperands
    /\ heap' = AllocRefVal(heap, ObjectNew(c))
    /\ frames' = <<PushOperand(ObjFrame, ValueReference(Len(heap') - 1))>>
    /\ q' = [fn |-> "alloc_object", cls |-> c, name |-> "", pre |-> ObjFrame.op_stack, res |-> "ok"]
    /\ ObjUnchanged

\* an instruction that pushes a value: an int constant or a reference held in a local
PushValue(v) ==
    /\ ~ObjStopped /\ Len(ObjFrame.op_stack) < MaxOperands
    /\ frames' = <<PushOperand(ObjFrame, v)>>
    /\ q' = [fn |-> "push", cls |-> NoClass, name |-> "", pre |-> ObjFrame.op_stack, res |-> "ok"]
    /\ UNCHANGED heap
    /\ ObjUnchanged

\* instr_putfield with a Fieldref (owner, name), run on the operands st
InstrPutfield(st, owner, name) ==
    /\ ~ObjStopped
    /\ LET r == Last(st)
           slots == SlotsNamed(HeapGet(heap, r.v), name)
           done(res, pops) ==
               /\ q' = [fn |-> "putfield", cls |-> owner, name |-> name, pre |-> st, res |-> res]
               /\ frames' = <<[EmptyFrame EXCEPT !.op_stack = SubSeq(st, 1, Len(st) - pops)]>>
       IN  IF st = <<>>
           THEN done("panic", 0) /\ UNCHANGED heap
           ELSE IF r.t # "Reference" \/ slots = {}
           THEN done("err", 1) /\ UNCHANGED heap
           ELSE IF Len(st) = 1
           THEN done("panic", 1) /\ UNCHANGED heap
           ELSE /\ done("ok", 2)
                /\ \E id \in slots :
                      heap' = [heap EXCEPT ![r.v + 1].fields[id] = st[Len(st) - 1]]
    /\ ObjUnchanged

\* instr_getfield with a Fieldref (owner, name)
InstrGetfield(owner, name) ==
    /\ ~ObjStopped
    /\ LET st == ObjFrame.op_stack
           r == Last(st)
           rv == HeapGet(heap, r.v)
           slots == SlotsNamed(rv, name)
           done(res) == q' = [fn |-> "getfield", cls |-> owner, name |-> name, pre |-> st, res |-> res]
       IN  IF st = <<>>
           THEN done("panic") /\ UNCHANGED frames
           ELSE IF r.t # "Reference" \/ slots = {}
           THEN /\ done("err")
                /\ frames' = <<PopOperand(ObjFrame)>>
           ELSE /\ done("ok")
                /\ \E id \in slots :
                      frames' = <<PushOperand(PopOperand(ObjFrame), rv.fields[id])>>
    /\ UNCHANGED heap
    /\ ObjUnchanged

ObjNext ==
    \/ \E c \in {"P", "Q"} : AllocObject(c)
    \/ \E v \in {ValueInt(7)} \cup {ValueReference(i) : i \in 0..(Len(heap) - 1)} : PushValue(v)
    \/ \E owner \in {"P", "Q"} : InstrPutfield(ObjFrame.op_stack, owner, "g")
    \/ \E owner \in {"P", "Q"} : InstrGetfield(owner, "g")

SpecObj == ObjInit /\ [][ObjNext]_vars

\* C12: the object alloc_object just allocated with class C has exactly the slots
\* (D, f), D being C or a transitive superclass or superinterface of C and f an
\* instance field declared by D, each holding the default value of f's descriptor
C12_AllSupertypeSlots ==
    q.fn = "alloc_object" =>
        LET obj == heap[Len(heap)]
        IN  /\ DOMAIN obj.fields =
                   UNION { FieldIdents(d) : d \in {t \in DOMAIN cp : IsSubclassOf(q.cls, t)} }
            /\ \A id \in DOMAIN obj.fields :
                   obj.fields[id] = DefaultOfType(cp[id[1]].inst_fields_info[id[2]])


\* C13: when putfield ran on the operand stack ..., o, v (v on top), o an object
\* with the instance field named by the Fieldref and v an int, it succeeded and a
\* following getfield of the same Fieldref on o pushes v
C13_PutThenGet ==
    LET st == q.pre
        o == st[Len(st) - 1]
        v == Last(st)
    IN  ( /\ q.fn = "putfield" /\ Len(st) >= 2
          /\ o.t = "Reference" /\ v.t = "Int"
          /\ SlotsNamed(HeapGet(heap, o.v), q.name) # {} )
        => /\ q.res = "ok"
           /\ \A id \in SlotsNamed(HeapGet(heap, o.v), q.name) :
                  HeapGet(heap, o.v).fields[id] = v

\* C14: an object of class Q, where Q extends P and both declare the instance
\* field g, holds the two distinct slots (P, g) and (Q, g)
C14_TwoSlots ==
    \A i \in DOMAIN heap :
        ( /\ heap[i].kind = "Object" /\ heap[i].class = "Q"
          /\ "g" \in DOMAIN cp["P"].inst_fields_info
          /\ "g" \in DOMAIN cp["Q"].inst_fields_info )
        => {<<"P", "g">>, <<"Q", "g">>} \subseteq DOMAIN heap[i].fields

----------------------------------------------------------------------------
(* Method and field lookup of the method area, each called once on every   *)
(* hierarchy: every shape, every set of declaring types, and one declared  *)
(* method m that may be abstract, private or protected instead of public.  *)

\* the instance method m of the class named n, if it declares one
DeclaresInstanceMethod(n, m) == m \in DOMAIN cp[n].inst_methods

\* MethodAccessFlags::is_interface_default on the method m declared by n
IsInterfaceDefault(n, m) == ~cp[n].inst_methods[m].private /\ ~cp[n].inst_methods[m].abstract

RECURSIVE KeepSeen(_, _)
\* the filter_map over the superinterface names of one level, in order:
\* seen_ifaces.insert(name) is true for a name not seen before, and such a name
\* is dropped; a name already in seen_ifaces is kept
KeepSeen(names, seen) ==
    IF names = <<>> THEN <<>>
    ELSE IF Head(names) \in seen
         THEN <<Head(names)>> \o KeepSeen(Tail(names), seen)
         ELSE KeepSeen(Tail(names), seen \cup {Head(names)})

RECURSIVE FindFromLevel(_, _, _)
\* the loop of find_maximally_specific_superinterface_method over one level
FindFromLevel(ifaces, seen, m) ==
    LET candidates == SelectSeq(ifaces,
                          LAMBDA i : DeclaresInstanceMethod(i, m) /\ IsInterfaceDefault(i, m))
        RECURSIVE Supers(_)
        Supers(s) == IF s = <<>> THEN <<>> ELSE cp[Head(s)].interfaces \o Supers(Tail(s))
        next == KeepSeen(Supers(ifaces), seen)
    IN  IF Len(candidates) = 1 THEN [ok |-> TRUE, owner |-> candidates[1]]
        ELSE IF Len(candidates) >= 2 \/ next = <<>> THEN [ok |-> FALSE, owner |-> NoClass]
        ELSE FindFromLevel(next, seen \cup {Supers(ifaces)[i] : i \in 1..Len(Supers(ifaces))}, m)

\* MethodArea::find_maximally_specific_superinterface_method: [ok, owner]
FindMaximallySpecificSuperinterfaceMethod(base, m) ==
    FindFromLevel(cp[base].interfaces,
                  {cp[base].interfaces[i] : i \in 1..Len(cp[base].interfaces)}, m)

RECURSIVE ResolveInstanceMethodClass(_, _)
\* MethodArea::resolve_instance_method_class
ResolveInstanceMethodClass(n, m) ==
    LET viaSuper == IF cp[n].super_class # NoClass
                    THEN ResolveInstanceMethodClass(cp[n].super_class, m)
                    ELSE [ok |-> FALSE, owner |-> NoClass]
    IN  IF DeclaresInstanceMethod(n, m) THEN [ok |-> TRUE, owner |-> n]
        ELSE IF viaSuper.ok THEN viaSuper
        ELSE FindMaximallySpecificSuperinterfaceMethod(n, m)

\* MethodArea::resolve_instance_method_interface
ResolveInstanceMethodInterface(n, m) ==
    LET viaObject == ResolveInstanceMethodClass(Obj, m)
    IN  IF DeclaresInstanceMethod(n, m) THEN [ok |-> TRUE, owner |-> n]
        ELSE IF viaObject.ok /\ cp[viaObject.owner].inst_methods[m].public THEN viaObject
        ELSE FindMaximallySpecificSuperinterfaceMethod(n, m)

\* MethodArea::resolve_instance_method
ResolveInstanceMethod(n, m) ==
    IF cp[n].is_interface
    THEN ResolveInstanceMethodInterface(n, m)
    ELSE ResolveInstanceMethodClass(n, m)

RECURSIVE SelectFrom(_, _, _)
\* the loop of select_instance_method: cls walks up the superclass chain while
\* the lookup is made on runtime_class
SelectFrom(runtime_class, cls, m) ==
    IF DeclaresInstanceMethod(runtime_class, m) THEN [ok |-> TRUE, owner |-> runtime_class]
    ELSE IF cp[cls].super_class # NoClass THEN SelectFrom(runtime_class, cp[cls].super_class, m)
    ELSE FindMaximallySpecificSuperinterfaceMethod(runtime_class, m)

\* MethodArea::select_instance_method, the resolved method mR being m of class resolved
SelectInstanceMethod(runtime_class, resolved, m) ==
    IF cp[resolved].inst_methods[m].private THEN [ok |-> TRUE, owner |-> resolved]
    ELSE SelectFrom(runtime_class, runtime_class, m)

LookupInit ==
    /\ Fresh
    /\ q = NoLookup
    /\ \E shape \in Shapes, D \in SUBSET LookupTypes :
       \E odd \in D \cup {NoClass}, kind \in MethodKinds :
          /\ (odd = NoClass) = (kind = "public")
          /\ cp = Hierarchy(shape, LookupTypes, D, odd, kind)

\* the call fn(cls, ...) returned r; resolved is the class of the resolved method
\* handed to select_instance_method
Looked(fn, cls, resolved, r) ==
    /\ q = NoLookup
    /\ q' = [fn |-> fn, cls |-> cls, resolved |-> resolved, ok |-> r.ok, owner |-> r.owner]
    /\ UNCHANGED <<frames, classes, heap, ctl, ret, vm, call, result, n_exec, first,
                   clinit_runs, ev, cp>>

ResolveStaticFieldCall(c) == Looked("resolve_static_field", c, NoClass, ResolveStaticField(c, "f"))

ResolveStaticMethodCall(c) == Looked("resolve_static_method", c, NoClass, ResolveStaticMethod(c, "s"))

ResolveInstanceMethodCall(c) == Looked("resolve_instance_method", c, NoClass, ResolveInstanceMethod(c, "m"))

FindMaximallySpecificCall(c) ==
    Looked("find_maximally_specific", c, NoClass, FindMaximallySpecificSuperinterfaceMethod(c, "m"))

\* select_instance_method on the method resolved through class c and a runtime
\* class that is a subclass of c
SelectInstanceMethodCall(c, runtime_class) ==
    /\ ~cp[runtime_class].is_interface
    /\ IsSubclassOf(runtime_class, c)
    /\ ResolveInstanceMethod(c, "m").ok
    /\ Looked("select_instance_method", runtime_class, ResolveInstanceMethod(c, "m").owner,
              SelectInstanceMethod(runtime_class, ResolveInstanceMethod(c, "m").owner, "m"))

LookupNext ==
    \/ \E c \in LookupTypes : ResolveStaticFieldCall(c)
    \/ \E c \in LookupTypes : ResolveStaticMethodCall(c)
    \/ \E c \in LookupTypes : ResolveInstanceMethodCall(c)
    \/ \E c \in LookupTypes : FindMaximallySpecificCall(c)
    \/ \E c \in LookupTypes, rc \in LookupTypes : SelectInstanceMethodCall(c, rc)

SpecLookup == LookupInit /\ [][LookupNext]_vars

RECURSIVE SuperclassChain(_)
\* the class named n followed by its superclasses, nearest first
SuperclassChain(n) ==
    IF cp[n].super_class = NoClass THEN <<n>> ELSE <<n>> \o SuperclassChain(cp[n].super_class)

\* the first name in names that is in S, as a lookup result
FirstIn(names, S) ==
    LET hits == SelectSeq(names, LAMBDA d : d \in S)
    IN  IF hits = <<>> THEN [ok |-> FALSE, owner |-> NoClass]
        ELSE [ok |-> TRUE, owner |-> hits[1]]

\* C15: for a non-private resolved method, select_instance_method returns the
\* method m declared by the first class, walking the runtime class and then its
\* superclass chain upwards, that declares one
C15_SelectWalksChain ==
    LET first_decl == FirstIn(SuperclassChain(q.cls),
                              {d \in LookupTypes : DeclaresInstanceMethod(d, "m")})
    IN  ( /\ q.fn = "select_instance_method"
          /\ ~cp[q.resolved].inst_methods["m"].private
          /\ first_decl.ok )
        => (q.ok /\ q.owner = first_decl.owner)


\* C16: resolve_instance_method(C, m) returns what the reference lookup returns:
\* the first declared match on C and its superclass chain; for an interface C,
\* C's own method, then a public method of java/lang/Object; only then the
\* maximally-specific superinterface method computed from C's own superinterfaces
C16_ResolveAsReference ==
    LET C == q.cls
        declaring == {d \in LookupTypes : DeclaresInstanceMethod(d, "m")}
        on_chain == FirstIn(SuperclassChain(C), declaring)
        reference ==
            IF ~cp[C].is_interface /\ on_chain.ok THEN on_chain
            ELSE IF cp[C].is_interface /\ C \in declaring THEN [ok |-> TRUE, owner |-> C]
            ELSE IF cp[C].is_interface /\ Obj \in declaring /\ cp[Obj].inst_methods["m"].public
                 THEN [ok |-> TRUE, owner |-> Obj]
            ELSE FindMaximallySpecificSuperinterfaceMethod(C, "m")
    IN  q.fn = "resolve_instance_method" => (q.ok = reference.ok /\ q.owner = reference.owner)

RECURSIVE MaximallySpecificByLevel(_, _)
\* the search C17 describes: level by level, a level's matching interfaces decide,
\* an empty level of not-yet-visited superinterfaces ends it
MaximallySpecificByLevel(level, visited) ==
    LET matching == {i \in level : DeclaresInstanceMethod(i, "m") /\ IsInterfaceDefault(i, "m")}
        next == UNION { {cp[i].interfaces[k] : k \in 1..Len(cp[i].interfaces)} : i \in level }
                    \ visited
    IN  IF Cardinality(matching) = 1
        THEN [ok |-> TRUE, owner |-> CHOOSE i \in matching : TRUE]
        ELSE IF matching # {} \/ next = {} THEN [ok |-> FALSE, owner |-> NoClass]
        ELSE MaximallySpecificByLevel(next, visited \cup next)

\* C17: find_maximally_specific_superinterface_method searches level by level from
\* the direct superinterfaces of the base: the only interface of the first level
\* with a matching method that is neither private, static nor abstract is the
\* result, several fail, and a level without one hands over to its
\* not-yet-visited direct superinterfaces; it fails otherwise only when no
\* reachable level has such a method
C17_SearchByLevel ==
    LET direct == {cp[q.cls].interfaces[i] : i \in 1..Len(cp[q.cls].interfaces)}
        reference == MaximallySpecificByLevel(direct, direct)
    IN  q.fn = "find_maximally_specific" => (q.ok = reference.ok /\ q.owner = reference.owner)

RECURSIVE FieldLookup(_)
\* the field lookup C18 describes: C itself, then the same lookup on each direct
\* superinterface in order, then on the superclass
FieldLookup(n) ==
    LET RECURSIVE FirstOf(_)
        FirstOf(names) ==
            IF names = <<>> THEN [ok |-> FALSE, owner |-> NoClass]
            ELSE IF FieldLookup(Head(names)).ok THEN FieldLookup(Head(names))
            ELSE FirstOf(Tail(names))
    IN  IF "f" \in DOMAIN cp[n].static_fields THEN [ok |-> TRUE, owner |-> n]
        ELSE IF FirstOf(cp[n].interfaces).ok THEN FirstOf(cp[n].interfaces)
        ELSE IF cp[n].super_class # NoClass THEN FieldLookup(cp[n].super_class)
        ELSE [ok |-> FALSE, owner |-> NoClass]

\* C18: resolve_static_field(C, f) returns the field declared by C, otherwise the
\* result of the same lookup on each direct superinterface in order, otherwise on
\* the superclass; it fails only if no type reachable this way declares f
C18_FieldLookupRecursive ==
    q.fn = "resolve_static_field" =>
        (q.ok = FieldLookup(q.cls).ok /\ q.owner = FieldLookup(q.cls).owner)

\* C19: resolve_static_method(C, s) on an interface C considers only C's own
\* static methods; otherwise it returns the first class D on C's superclass
\* chain, starting at C, that declares s, never an interface, D being the
\* declaring class and not C
C19_StaticMethodOnChain ==
    LET declaring == {d \in LookupTypes : "s" \in DOMAIN cp[d].static_methods}
        expected == IF cp[q.cls].is_interface
                    THEN FirstIn(<<q.cls>>, declaring)
                    ELSE FirstIn(SuperclassChain(q.cls), declaring)
    IN  q.fn = "resolve_static_method" =>
            /\ q.ok = expected.ok
            /\ q.ok => q.owner = expected.owner
            /\ (q.ok /\ ~cp[q.cls].is_interface) => ~cp[q.owner].is_interface

\* the static method was found two classes above the class named in the call,
\* although an interface of that class declares it as well
C19_Witness ==
    /\ q.fn = "resolve_static_method" /\ q.ok
    /\ q.cls = "Q" /\ q.owner = Obj
    /\ \E i \in 1..Len(cp["Q"].interfaces) : "s" \in DOMAIN cp[cp["Q"].interfaces[i]].static_methods

----------------------------------------------------------------------------
(* One call of Frame::transfer_args, of an instance-method invocation or   *)
(* of a stack instruction on a caller frame holding up to MaxArgs operands *)
(* (the four kinds the repository's test uses and a reference to the one   *)
(* object on the heap), with a callee frame of 0 (Frame::new_empty) to     *)
(* MaxLocals locals.                                                       *)

MaxArgs == 4
MaxLocals == 6

\* Value::Int(1), Value::Long(1), Value::Float(1.0), Value::Double(1.0)
TestValues == {[t |-> k, v |-> 1] : k \in {"Int", "Long", "Float", "Double"}}

\* the operand stacks of at most n operands
Operands(n) == UNION {[1..k -> TestValues \cup {ValueReference(1)}] : k \in 0..n}

FrameInit ==
    /\ classes = NewMethodArea
    /\ ctl = <<>> /\ ret = "none" /\ vm = "idle" /\ call = NoCall
    /\ result = NoOutcome /\ n_exec = 0
    /\ first = [call |-> NoCall, result |-> NoOutcome]
    /\ clinit_runs = [c \in ClassPath |-> 0]
    /\ ev = NoEvent
    /\ cp = Hierarchy(CHOOSE s \in Shapes : s.P = <<>>, {Obj}, {}, NoClass, "public")
    /\ heap = AllocRefVal(NewHeap, ObjectNew(Obj))
    /\ q = NoLookup
    /\ \E st \in Operands(MaxArgs), max_locals \in 0..MaxLocals :
          frames = << [EmptyFrame EXCEPT !.op_stack = st],
                      [EmptyFrame EXCEPT !.locals = [i \in 1..max_locals |-> NoValue]] >>

\* Frame::transfer_args(caller, callee, n) with caller = frames[1], callee =
\* frames[2]: pop_args panics on stack underflow, set_locals(0, args) panics when
\* the slice 0..args.len() is out of the callee's locals
TransferArgs(n) ==
    /\ q = NoLookup
    /\ LET caller == frames[1]
           callee == frames[2]
           args == PopArgs(caller, n)
           done(res) == q' = [fn |-> "transfer_args", n |-> n, pre |-> caller.op_stack, res |-> res]
       IN  IF n > Len(caller.op_stack)
           THEN done("panic") /\ frames' = <<[caller EXCEPT !.op_stack = <<>>], callee>>
           ELSE IF Len(args) > Len(callee.locals)
           THEN done("panic") /\ frames' = <<DropArgs(caller, n), callee>>
           ELSE /\ done("ok")
                /\ frames' = << DropArgs(caller, n),
                                [callee EXCEPT !.locals =
                                    [i \in DOMAIN @ |-> IF i <= Len(args) THEN args[i] ELSE @[i]]] >>
    /\ UNCHANGED <<classes, heap, ctl, ret, vm, call, result, n_exec, first, clinit_runs, ev, cp>>

\* instr_invokevirtual and instr_invokespecial (op) of a method with num_args n
\* on caller = frames[1]; callee = frames[2] is the frame Frame::new makes for the
\* method found.  The receiver is popped from the top of the caller's stack, then
\* transfer_receiver_and_args sets local 0 and copies pop_args(n) from local 1.
\* lookup: the method is found, is missing, or (invokespecial) is not <init>.
InstrInvokeInstance(op, n, lookup) ==
    /\ q = NoLookup
    /\ LET caller == frames[1]
           callee == frames[2]
           st == caller.op_stack
           this == Last(st)
           popped == PopOperand(caller)
           args == PopArgs(popped, n)
           received == [callee EXCEPT !.locals[1] = this]
           done(res) == q' = [fn |-> op, n |-> n, pre |-> st, res |-> res, lookup |-> lookup]
       IN  IF lookup = "not_init"
           THEN done("err") /\ UNCHANGED frames
           ELSE IF st = <<>>
           THEN done("panic") /\ UNCHANGED frames
           ELSE IF \/ this.t # "Reference"
                   \/ op = "invokevirtual" /\ HeapGet(heap, this.v).kind # "Object"
                   \/ lookup = "missing"
           THEN done("err") /\ frames' = <<popped, callee>>
           ELSE IF callee.locals = <<>>
           THEN done("panic") /\ frames' = <<popped, callee>>
           ELSE IF n > Len(popped.op_stack)
           THEN done("panic") /\ frames' = <<[popped EXCEPT !.op_stack = <<>>], received>>
           ELSE IF 1 + Len(args) > Len(callee.locals)
           THEN done("panic") /\ frames' = <<DropArgs(popped, n), received>>
           ELSE /\ done("ok")
                /\ frames' = << DropArgs(popped, n),
                                [received EXCEPT !.locals =
                                    [i \in DOMAIN @ |-> IF 1 < i /\ i <= 1 + Len(args)
                                                        THEN args[i - 1] ELSE @[i]]] >>
    /\ UNCHANGED <<classes, heap, ctl, ret, vm, call, result, n_exec, first, clinit_runs, ev, cp>>

\* mutant of Category: every value is of category 1
CategoryAllOne(v) == "One"

\* Value::category
Category(v) == IF v.t \in {"Long", "Double"} THEN "Two" ELSE "One"

\* the handlers of the stack instructions as the paths of their matches on the
\* categories of v1 (the top), v2, ...: cats are the categories a path pops
\* (peek_operand().category() or pop_operand_if_category_matches!), out the
\* values it pushes, first to last, by their number
StackForms ==
    [pop     |-> { [cats |-> <<"One">>, out |-> <<>>] },
     pop2    |-> { [cats |-> <<"Two">>, out |-> <<>>],
                   [cats |-> <<"One", "One">>, out |-> <<>>] },
     dup     |-> { [cats |-> <<"One">>, out |-> <<1, 1>>] },
     dup_x1  |-> { [cats |-> <<"One", "One">>, out |-> <<1, 2, 1>>] },
     dup_x2  |-> { [cats |-> <<"One", "One", "One">>, out |-> <<1, 3, 2, 1>>],
                   [cats |-> <<"One", "Two">>, out |-> <<1, 2, 1>>] },
     dup2    |-> { [cats |-> <<"One", "One">>, out |-> <<2, 1, 2, 1>>],
                   [cats |-> <<"Two">>, out |-> <<1, 1>>] },
     dup2_x1 |-> { [cats |-> <<"One", "One", "One">>, out |-> <<2, 1, 3, 2, 1>>],
                   [cats |-> <<"Two", "Two">>, out |-> <<1, 2, 1>>] },
     dup2_x2 |-> { [cats |-> <<"One", "One", "One", "One">>, out |-> <<2, 1, 4, 3, 2, 1>>],
                   [cats |-> <<"One", "One", "Two">>, out |-> <<2, 1, 3, 2, 1>>],
                   [cats |-> <<"Two", "One", "One">>, out |-> <<1, 3, 2, 1>>],
                   [cats |-> <<"Two", "Two">>, out |-> <<1, 2, 1>>] },
     swap    |-> { [cats |-> <<"One", "One">>, out |-> <<1, 2>>] }]

RECURSIVE RunStackOp(_, _, _)
\* a handler run on the operands st, at value k with the paths forms still open:
\* peek_operand panics on an empty stack, a category no open path takes is the
\* Err of pop_operand_if_category_matches! (values 1..k-1 are popped by then),
\* a path at its end pushes its values
RunStackOp(forms, st, k) ==
    LET rest == SubSeq(st, 1, Len(st) - (k - 1))
        ended == {f \in forms : Len(f.cats) = k - 1}
        open == {f \in forms : Category(st[Len(st) + 1 - k]) = f.cats[k]}
    IN  IF ended # {}
        THEN LET f == CHOOSE g \in ended : TRUE
             IN  [res |-> "ok", st |-> rest \o [i \in DOMAIN f.out |-> st[Len(st) + 1 - f.out[i]]]]
        ELSE IF Len(st) < k THEN [res |-> "panic", st |-> rest]
        ELSE IF open = {} THEN [res |-> "err", st |-> rest]
        ELSE RunStackOp(open, st, k + 1)

\* instr_pop, instr_pop2, instr_dup, instr_dup_x1, instr_dup_x2, instr_dup2,
\* instr_dup2_x1, instr_dup2_x2 or instr_swap (op) on caller = frames[1]
InstrStack(op) ==
    /\ q = NoLookup
    /\ LET r == RunStackOp(StackForms[op], frames[1].op_stack, 1)
       IN  /\ q' = [fn |-> op, n |-> 0, pre |-> frames[1].op_stack, res |-> r.res]
           /\ frames' = <<[frames[1] EXCEPT !.op_stack = r.st], frames[2]>>
    /\ UNCHANGED <<classes, heap, ctl, ret, vm, call, result, n_exec, first, clinit_runs, ev, cp>>

FrameNext ==
    \/ \E n \in 0..MaxArgs : TransferArgs(n)
    \/ \E op \in DOMAIN StackForms : InstrStack(op)
    \/ \E n \in 0..MaxArgs, lookup \in {"found", "missing"} :
          InstrInvokeInstance("invokevirtual", n, lookup)
    \/ \E n \in 0..MaxArgs, lookup \in {"found", "missing", "not_init"} :
          InstrInvokeInstance("invokespecial", n, lookup)

SpecFrame == FrameInit /\ [][FrameNext]_vars

RECURSIVE SlotsOf(_)
\* the local slots of the values vs: a Long or Double takes the value and an
\* empty slot, every other value one slot
SlotsOf(vs) ==
    IF vs = <<>> THEN <<>>
    ELSE (IF Head(vs).t \in {"Long", "Double"} THEN <<Head(vs), NoValue>> ELSE <<Head(vs)>>)
         \o SlotsOf(Tail(vs))

\* C20: transfer_args(caller, callee, n) removes exactly the top n values from the
\* caller's operand stack and writes them, in their bottom-to-top order, into the
\* callee's locals from index 0, a Long or Double taking two slots (value, None);
\* so operands [Int, Long, Float, Double] give locals
\* [Some(Int), Some(Long), None, Some(Float), Some(Double), None]
C20_TransferArgs ==
    (q.fn = "transfer_args" /\ q.n <= Len(q.pre)) =>
        LET kept == Len(q.pre) - q.n
            slots == SlotsOf(SubSeq(q.pre, kept + 1, Len(q.pre)))
        IN  /\ q.res = "ok"
            /\ frames[1].op_stack = SubSeq(q.pre, 1, kept)
            /\ Len(frames[2].locals) >= Len(slots)
            /\ SubSeq(frames[2].locals, 1, Len(slots)) = slots

\* C21: invokevirtual and invokespecial of a method with n arguments, run on a
\* caller stack ..., objectref, arg1, ..., argn, leave objectref in local 0 of the
\* callee frame and arg1..argn in order from local 1 on, and the caller's stack
\* has lost exactly objectref and the n arguments
C21_ReceiverAndArgs ==
    LET kept == Len(q.pre) - q.n - 1
        slots == SlotsOf(SubSeq(q.pre, kept + 1, Len(q.pre)))
    IN  ( /\ q.fn \in {"invokevirtual", "invokespecial"} /\ q.lookup = "found"
          /\ kept >= 0 /\ q.pre[kept + 1].t = "Reference"
          /\ Len(frames[2].locals) >= Len(slots) ) =>
            /\ q.res = "ok"
            /\ frames[1].op_stack = SubSeq(q.pre, 1, kept)
            /\ SubSeq(frames[2].locals, 1, Len(slots)) = slots

----------------------------------------------------------------------------
(* MethodDescriptor::num_args called on the method descriptors with up to  *)
(* MaxParams parameter types: a primitive letter or L<class name>; behind  *)
(* up to MaxDims '[' prefixes.  A descriptor is the sequence of its        *)
(* characters.                                                             *)

MaxParams == 2
MaxDims == 1

\* a parameter type: dims '[' prefixes before a primitive letter or L<name>; with
\* a class name in internal form, made of primitive letters, L and '/'
ParamTypes ==
    [dims : 0..MaxDims,
     base : {<<c>> : c \in {"B", "C", "D", "F", "I", "J", "S", "Z"}}
            \cup {<<"L">> \o nm \o <<";">> :
                        nm \in {<<"I">>, <<"L", "I">>, <<"J", "/", "L", "D">>}}]

RECURSIVE Concat(_)
Concat(ss) == IF ss = <<>> THEN <<>> ELSE Head(ss) \o Concat(Tail(ss))

\* the descriptor ( ParameterDescriptor* ) ReturnDescriptor
Descriptor(ps, rd) ==
    <<"(">> \o Concat([i \in DOMAIN ps |-> [j \in 1..ps[i].dims |-> "["] \o ps[i].base])
            \o <<")">> \o rd

RECURSIVE NumArgsFrom(_, _, _, _)
\* the loop of num_args over self.0[1..].chars() from character i, with the
\* counter n and the flag in_ref
NumArgsFrom(d, i, n, in_ref) ==
    IF i > Len(d) \/ d[i] = ")" THEN n
    ELSE IF d[i] = "[" THEN NumArgsFrom(d, i + 1, n, in_ref)
    ELSE IF ~in_ref /\ d[i] = "L" THEN NumArgsFrom(d, i + 1, n, TRUE)
    ELSE IF ~in_ref THEN NumArgsFrom(d, i + 1, n + 1, FALSE)
    ELSE IF d[i] = ";" THEN NumArgsFrom(d, i + 1, n + 1, FALSE)
    ELSE NumArgsFrom(d, i + 1, n, TRUE)

\* mutant of NumArgs: every character before ')' but '[' and ';' counts
NumArgsEveryLetter(d) ==
    LET close == CHOOSE i \in 1..Len(d) : d[i] = ")" /\ \A j \in 1..(i - 1) : d[j] # ")"
    IN  Cardinality({i \in 2..(close - 1) : d[i] \notin {"[", ";"}})

\* MethodDescriptor::num_args
NumArgs(d) == NumArgsFrom(d, 2, 0, FALSE)

DescInit ==
    /\ Fresh /\ cp = <<>>
    /\ \E ps \in UNION {[1..k -> ParamTypes] : k \in 0..MaxParams},
          rd \in {<<"V">>, <<"L", "I", ";">>} :
          q = [fn |-> "MethodDescriptor", params |-> ps, desc |-> Descriptor(ps, rd)]

NumArgsCall ==
    /\ q.fn = "MethodDescriptor"
    /\ q' = [fn |-> "num_args", params |-> q.params, desc |-> q.desc, n |-> NumArgs(q.desc)]
    /\ UNCHANGED <<frames, classes, heap, ctl, ret, vm, call, result, n_exec, first, clinit_runs, ev, cp>>

SpecDesc == DescInit /\ [][NumArgsCall]_vars

\* C22: for every well-formed method descriptor, num_args is the number of
\* parameter types between '(' and ')': a primitive letter counts one (long and
\* double too), an L...; type counts one whatever letters its class name has,
\* '[' prefixes add nothing, and the empty parameter list gives 0
C22_NumArgs == q.fn = "num_args" => q.n = Len(q.params)

\* num_args ran on a descriptor with an array of a class whose name has the
\* letters I and L, and a long or double parameter
C22_Witness ==
    /\ q.fn = "num_args" /\ q.n = 2
    /\ \E i \in DOMAIN q.params :
          q.params[i].dims > 0 /\ q.params[i].base = <<"L", "L", "I", ";">>
    /\ \E i \in DOMAIN q.params : q.params[i].base \in {<<"J">>, <<"D">>}

----------------------------------------------------------------------------
(* Arrays.  One array of up to MaxLen items, allocated by alloc_array on a *)
(* new heap, and the array load and store instructions run on a frame that *)
(* holds their operands.  A boolean array keeps its bits in bytes, bit idx *)
(* of the array being bit 7 - idx % 8 of byte idx / 8.                     *)

MaxLen == 1

\* new_array_of_type: JavaBooleanArray::new for 'Z' (data: the bits of the
\* (len - 1) / 8 + 1 bytes), JavaIntArray::new for 'I' (data: the i32 items),
\* JavaReferenceArray::new for 'L' and '[' (data: null references)
NewArrayOfType(len, item_desc) ==
    [kind |-> "Array", class |-> NoClass, desc |-> item_desc, l |-> len,
     data |-> CASE item_desc = "Z" ->
                     [i \in 1..(IF len = 0 THEN 0 ELSE 8 * ((len - 1) \div 8 + 1)) |-> 0]
                [] item_desc = "I" -> [i \in 1..len |-> 0]
                [] OTHER -> [i \in 1..len |-> ValueReference(0)]]

\* JavaArray::get, the index being an i32 cast to an unsigned type (a negative
\* index becomes one above every length): [some, v]
ArrayGet(arr, idx) ==
    IF idx < 0 \/ idx >= arr.l THEN [some |-> FALSE, v |-> NoValue]
    ELSE [some |-> TRUE,
          v |-> IF arr.desc \in {"Z", "I"} THEN ValueInt(arr.data[idx + 1])
                ELSE arr.data[idx + 1]]

\* mutant of ArrayPut: nothing is stored
ArrayPutNothing(arr, idx, v) == [res |-> "ok", arr |-> arr]

\* JavaArray::put: [res, arr].  JavaReferenceArray::put skips an index outside
\* the data; JavaPrimitiveArray::put indexes the data (a panic outside it) and
\* takes an Int only; JavaBooleanArray::put asserts that the byte exists, then
\* sets or clears the bit by the lowest bit of the Int
ArrayPut(arr, idx, v) ==
    LET inside == idx >= 0 /\ idx + 1 \in DOMAIN arr.data
    IN  CASE arr.desc = "Z" ->
                IF v.t # "Int" \/ ~inside THEN [res |-> "panic", arr |-> arr]
                ELSE [res |-> "ok", arr |-> [arr EXCEPT !.data[idx + 1] = v.v % 2]]
          [] arr.desc = "I" ->
                IF v.t # "Int" \/ ~inside THEN [res |-> "panic", arr |-> arr]
                ELSE [res |-> "ok", arr |-> [arr EXCEPT !.data[idx + 1] = v.v]]
          [] OTHER ->
                IF ~inside THEN [res |-> "ok", arr |-> arr]
                ELSE [res |-> "ok", arr |-> [arr EXCEPT !.data[idx + 1] = v]]

\* the $vtype of the instr_aload! and instr_astore! instances
ArrayOps == [iaload |-> "Int", aaload |-> "Reference", baload |-> "Byte",
             iastore |-> "Int", aastore |-> "Reference", bastore |-> "Byte"]

\* the stacks of up to n operands on the frame before an array instruction
ArrayOperands(n) ==
    UNION {[1..k -> {ValueInt(i) : i \in -1..MaxLen}
                    \cup {ValueReference(1), [t |-> "Byte", v |-> 1]}] : k \in 0..n}

ArrayInit ==
    /\ classes = NewMethodArea
    /\ ctl = <<>> /\ ret = "none" /\ vm = "idle" /\ call = NoCall
    /\ result = NoOutcome /\ n_exec = 0
    /\ first = [call |-> NoCall, result |-> NoOutcome]
    /\ clinit_runs = [c \in ClassPath |-> 0]
    /\ ev = NoEvent /\ cp = <<>>
    /\ frames = <<EmptyFrame>>
    /\ q = [fn |-> "alloc_array", pre |-> <<>>, res |-> "ok", e |-> ""]
    /\ \E len \in 0..MaxLen, item_desc \in {"Z", "I", "L"} :
          heap = AllocRefVal(NewHeap, NewArrayOfType(len, item_desc))

\* the frame after pops pops of the operands st, the outcome in q
ArrayDone(op, st, pops, res, e) ==
    /\ q' = [fn |-> op, pre |-> st, res |-> res, e |-> e]
    /\ frames' = <<[EmptyFrame EXCEPT !.op_stack = SubSeq(st, 1, Len(st) - pops)]>>

\* an instance of instr_aload! run on the operands st
InstrALoad(op, st) ==
    /\ q.res = "ok"
    /\ LET n == Len(st)
           rv == HeapGet(heap, st[n - 1].v)
           got == ArrayGet(rv, st[n].v)
       IN  IF n = 0 THEN ArrayDone(op, st, 0, "panic", "stack underflow")
           ELSE IF st[n].t # "Int" THEN ArrayDone(op, st, 1, "err", "index is not an int")
           ELSE IF n = 1 THEN ArrayDone(op, st, 1, "panic", "stack underflow")
           ELSE IF st[n - 1].t # "Reference"
           THEN ArrayDone(op, st, 2, "err", "operand is not a reference value")
           ELSE IF rv.kind = "None" THEN ArrayDone(op, st, 2, "err", "referent not found on heap")
           ELSE IF rv.kind # "Array" THEN ArrayDone(op, st, 2, "err", "referent is not an array")
           ELSE IF ~got.some THEN ArrayDone(op, st, 2, "err", "array index out of bound")
           ELSE IF got.v.t # ArrayOps[op]
           THEN ArrayDone(op, st, 2, "err", "got value doesn't have type")
           ELSE /\ q' = [fn |-> op, pre |-> st, res |-> "ok", e |-> ""]
                /\ frames' = <<[EmptyFrame EXCEPT !.op_stack = Append(SubSeq(st, 1, n - 2), got.v)]>>
    /\ UNCHANGED <<classes, heap, ctl, ret, vm, call, result, n_exec, first, clinit_runs, ev, cp>>

\* an instance of instr_astore! run on the operands st
InstrAStore(op, st) ==
    /\ q.res = "ok"
    /\ LET n == Len(st)
           rv == HeapGet(heap, st[n - 2].v)
           put == ArrayPut(rv, st[n - 1].v, st[n])
           same == UNCHANGED heap
       IN  IF n = 0 THEN ArrayDone(op, st, 0, "panic", "stack underflow") /\ same
           ELSE IF st[n].t # ArrayOps[op]
           THEN ArrayDone(op, st, 1, "err", "the value to store doesn't have type") /\ same
           ELSE IF n = 1 THEN ArrayDone(op, st, 1, "panic", "stack underflow") /\ same
           ELSE IF st[n - 1].t # "Int"
           THEN ArrayDone(op, st, 2, "err", "index is not an int") /\ same
           ELSE IF n = 2 THEN ArrayDone(op, st, 2, "panic", "stack underflow") /\ same
           ELSE IF st[n - 2].t # "Reference"
           THEN ArrayDone(op, st, 3, "err", "operand is not a reference value") /\ same
           ELSE IF rv.kind = "None"
           THEN ArrayDone(op, st, 3, "err", "referent not found on heap") /\ same
           ELSE IF rv.kind # "Array"
           THEN ArrayDone(op, st, 3, "err", "referent is not an array") /\ same
           ELSE /\ ArrayDone(op, st, 3, put.res, IF put.res = "ok" THEN "" ELSE "put")
                /\ heap' = [heap EXCEPT ![st[n - 2].v + 1] = put.arr]
    /\ UNCHANGED <<classes, ctl, ret, vm, call, result, n_exec, first, clinit_runs, ev, cp>>

ArrayNext ==
    \/ \E st \in ArrayOperands(2), op \in {"iaload", "aaload", "baload"} : InstrALoad(op, st)
    \/ \E st \in ArrayOperands(3), op \in {"iastore", "aastore", "bastore"} : InstrAStore(op, st)

SpecArray == ArrayInit /\ [][ArrayNext]_vars

\* C25: for every int array a, every index i with 0 <= i < length(a) and every
\* int v, the iaload(a, i) that follows iastore(a, i, v) pushes Int(v)
C25_StoreThenLoad ==
    [][ LET s == q.pre
            l == q'.pre
            n == Len(s)
            m == Len(l)
        IN  ( /\ q.fn = "iastore" /\ n >= 3
              /\ s[n].t = "Int" /\ s[n - 1].t = "Int" /\ s[n - 2].t = "Reference"
              /\ HeapGet(heap, s[n - 2].v).kind = "Array"
              /\ HeapGet(heap, s[n - 2].v).desc = "I"
              /\ 0 <= s[n - 1].v /\ s[n - 1].v < HeapGet(heap, s[n - 2].v).l
              /\ q'.fn = "iaload" /\ m >= 2
              /\ l[m] = s[n - 1] /\ l[m - 1] = s[n - 2] ) =>
                /\ q.res = "ok" /\ q'.res = "ok"
                /\ frames'[1].op_stack = Append(SubSeq(l, 1, m - 2), ValueInt(s[n].v)) ]_vars

\* iaload pushed an int other than the default 0 of a new array
C25_Witness ==
    /\ q.fn = "iaload" /\ q.res = "ok"
    /\ HeapGet(heap, q.pre[Len(q.pre) - 1].v).desc = "I"
    /\ Last(frames[1].op_stack) \in {ValueInt(-1), ValueInt(1)}

\* C26: an array load or store (on a reference, primitive or boolean array) whose
\* index is negative or not below the array's length yields the out-of-bounds
\* error and leaves the contents of all arrays unchanged; on a zero-length array
\* every get fails
C26_OutOfBounds ==
    [][ LET st == q'.pre
            n == Len(st)
            store == q'.fn \in {"iastore", "aastore", "bastore"}
            k == IF store THEN n - 1 ELSE n
        IN  ( /\ q'.fn \in DOMAIN ArrayOps /\ k >= 2
              /\ store => st[n].t = ArrayOps[q'.fn]
              /\ st[k].t = "Int" /\ st[k - 1].t = "Reference"
              /\ HeapGet(heap, st[k - 1].v).kind = "Array"
              /\ (st[k].v < 0 \/ st[k].v >= HeapGet(heap, st[k - 1].v).l) ) =>
                /\ q'.res = "err" /\ q'.e = "array index out of bound"
                /\ heap' = heap ]_vars

----------------------------------------------------------------------------
(* The heap under up to MaxAllocs allocations of objects of class P (with  *)
(* the int field g) and of int and reference arrays, mixed with field      *)
(* writes and array stores.                                                *)

MaxAllocs == 2

HeapInit ==
    /\ Fresh
    /\ cp = Hierarchy(CHOOSE s \in Shapes : s.P = <<>>, {Obj, "P"}, {"P"}, NoClass, "public")
    /\ q = [fn |-> "Heap::new", pre |-> <<>>, res |-> "ok", e |-> "", ref |-> 0]

\* a `new` or a newarray/anewarray: alloc_object or alloc_array, the reference
\* returned (the heap's length - 1) pushed on the frame
HeapAlloc(fn, rv) ==
    /\ q.res = "ok" /\ Len(heap) <= MaxAllocs
    /\ heap' = AllocRefVal(heap, rv)
    /\ frames' = <<PushOperand(EmptyFrame, ValueReference(Len(heap') - 1))>>
    /\ q' = [fn |-> fn, pre |-> <<>>, res |-> "ok", e |-> "", ref |-> Len(heap') - 1]
    /\ ObjUnchanged

HeapNext ==
    \/ HeapAlloc("alloc_object", ObjectNew("P"))
    \/ \E len \in 0..MaxLen, item_desc \in {"I", "L"} :
          HeapAlloc("alloc_array", NewArrayOfType(len, item_desc))
    \/ \E r \in 0..MaxAllocs :
          \/ InstrPutfield(<<ValueInt(1), ValueReference(r)>>, "P", "g")
          \/ \E i \in 0..MaxLen :
                \/ InstrAStore("iastore", <<ValueReference(r), ValueInt(i), ValueInt(1)>>)
                \/ InstrAStore("aastore", <<ValueReference(r), ValueInt(i), ValueReference(1)>>)

SpecHeap == HeapInit /\ [][HeapNext]_vars

\* C23: in every reachable heap state, after any sequence of alloc_object,
\* alloc_array, field writes and array stores, heap index 0 holds the Null
\* sentinel and no allocation has returned Reference(0)
C23_NullSentinel ==
    /\ Len(heap) >= 1 /\ heap[1].kind = "Null"
    /\ q.fn \in {"alloc_object", "alloc_array"} => q.ref # 0

\* a field of an object and an item of an array have been written
C23_Witness ==
    /\ \E i \in DOMAIN heap :
          heap[i].kind = "Object" /\ \E id \in DOMAIN heap[i].fields : heap[i].fields[id] # ValueInt(0)
    /\ \E i \in DOMAIN heap :
          heap[i].kind = "Array" /\ heap[i].desc = "I" /\ \E j \in DOMAIN heap[i].data : heap[i].data[j] = 1

\* C24: alloc_object and alloc_array return the reference whose index is the
\* heap's size before the call, so one above every reference returned earlier
\* (these are 1..size - 1), and leave every entry allocated before in place and
\* unchanged
C24_AllocAppends ==
    [][ q'.fn \in {"alloc_object", "alloc_array"} =>
            /\ q'.ref = Len(heap)
            /\ frames'[1].op_stack = <<ValueReference(Len(heap))>>
            /\ \A r \in 1..(Len(heap) - 1) : q'.ref > r
            /\ Len(heap') = Len(heap) + 1
            /\ \A i \in DOMAIN heap : heap'[i] = heap[i] ]_vars

\* the second allocation, made after a field of the first was written
C24_Witness ==
    /\ q.fn = "alloc_array" /\ q.ref = 2
    /\ heap[2].kind = "Object" /\ \E id \in DOMAIN heap[2].fields : heap[2].fields[id] = ValueInt(1)

----------------------------------------------------------------------------
(* The stack instructions against the forms of the platform specification *)

\* the operand stack without its top k values, and its k-th value from the top
Below(st, k) == SubSeq(st, 1, Len(st) - k)
FromTop(st, k) == st[Len(st) + 1 - k]
\* values of the types long and double are of category 2, all others of category 1
Cat2(v) == v.t \in {"Long", "Double"}

\* C27: dup2_x1 behaves as the platform specifies in both forms: with three
\* category-1 values ..., v3, v2, v1 the stack becomes ..., v2, v1, v3, v2, v1;
\* with a category-2 value v1 on a category-1 value v2 it becomes ..., v1, v2, v1
C27_Dup2X1 ==
    LET st == q.pre
        v1 == FromTop(st, 1)
        v2 == FromTop(st, 2)
        v3 == FromTop(st, 3)
    IN  q.fn = "dup2_x1" =>
            /\ (Len(st) >= 3 /\ ~Cat2(v1) /\ ~Cat2(v2) /\ ~Cat2(v3)) =>
                  q.res = "ok" /\ frames[1].op_stack = Below(st, 3) \o <<v2, v1, v3, v2, v1>>
            /\ (Len(st) >= 2 /\ Cat2(v1) /\ ~Cat2(v2)) =>
                  q.res = "ok" /\ frames[1].op_stack = Below(st, 2) \o <<v1, v2, v1>>

\* the forms of the platform specification: the categories of value1, value2, ...
\* and the values the instruction leaves in their place, bottom to top
PlatformForms ==
    [pop     |-> { [cats |-> <<1>>, out |-> <<>>] },
     pop2    |-> { [cats |-> <<1, 1>>, out |-> <<>>], [cats |-> <<2>>, out |-> <<>>] },
     dup     |-> { [cats |-> <<1>>, out |-> <<1, 1>>] },
     dup_x1  |-> { [cats |-> <<1, 1>>, out |-> <<1, 2, 1>>] },
     dup_x2  |-> { [cats |-> <<1, 1, 1>>, out |-> <<1, 3, 2, 1>>],
                   [cats |-> <<1, 2>>, out |-> <<1, 2, 1>>] },
     dup2    |-> { [cats |-> <<1, 1>>, out |-> <<2, 1, 2, 1>>],
                   [cats |-> <<2>>, out |-> <<1, 1>>] },
     dup2_x2 |-> { [cats |-> <<1, 1, 1, 1>>, out |-> <<2, 1, 4, 3, 2, 1>>],
                   [cats |-> <<2, 1, 1>>, out |-> <<1, 3, 2, 1>>],
                   [cats |-> <<1, 1, 2>>, out |-> <<2, 1, 3, 2, 1>>],
                   [cats |-> <<2, 2>>, out |-> <<1, 2, 1>>] },
     swap    |-> { [cats |-> <<1, 1>>, out |-> <<1, 2>>] }]

\* the first n values from the top of st have the first n categories of cats
AgreesWith(st, cats, n) == \A k \in 1..n : Cat2(FromTop(st, k)) <=> cats[k] = 2

\* C28: pop, pop2, dup, dup_x1, dup_x2, dup2, dup2_x2 and swap leave the
\* platform's result for the form the categories of the top values select, and
\* return an error on every combination of categories that fits no form (a stack
\* too shallow to tell is no such combination)
C28_StackForms ==
    q.fn \in DOMAIN PlatformForms =>
        LET st == q.pre
            forms == PlatformForms[q.fn]
            selected == {f \in forms : Len(f.cats) <= Len(st) /\ AgreesWith(st, f.cats, Len(f.cats))}
            possible == {f \in forms : Len(f.cats) > Len(st) /\ AgreesWith(st, f.cats, Len(st))}
        IN  /\ \A f \in selected :
                  /\ q.res = "ok"
                  /\ frames[1].op_stack =
                        Below(st, Len(f.cats)) \o [i \in DOMAIN f.out |-> FromTop(st, f.out[i])]
            /\ (selected = {} /\ possible = {}) => q.res = "err"

\* dup2_x2 ran in its form 3 (a category-2 value under two category-1 values of
\* different types) with a fourth value below
C28_Witness ==
    /\ q.fn = "dup2_x2" /\ q.res = "ok" /\ Len(q.pre) = 4
    /\ Cat2(FromTop(q.pre, 3)) /\ FromTop(q.pre, 1).t = "Int" /\ FromTop(q.pre, 2).t = "Float"
    /\ Len(frames[1].op_stack) = 6

----------------------------------------------------------------------------
(* The shift instructions.  An int operand is kept as its i32 number, a    *)
(* long operand as the 64 bits of its i64 (lowest bit first), and a shift  *)
(* is done on the bits.                                                    *)

\* the 32 bits of the i32 n in two's complement, lowest bit first
ToBits(n) ==
    [i \in 1..32 |-> IF i = 32 THEN (IF n < 0 THEN 1 ELSE 0) ELSE (n \div 2^(i - 1)) % 2]

RECURSIVE Low(_, _)
\* the number of the lowest k bits of b
Low(b, k) == IF k = 0 THEN 0 ELSE b[1] + 2 * Low(Tail(b), k - 1)

\* the i32 of 32 bits
FromBits(b) == IF b[32] = 1 THEN Low(b, 31) - 2^30 - 2^30 ELSE Low(b, 31)

\* the i64 of the i32 n (the long constants and conversions of the program)
LongOf(n) == [t |-> "Long", v |-> [i \in 1..64 |-> ToBits(n)[IF i <= 32 THEN i ELSE 32]]]

\* mutant of ShiftCount: the lowest 5 bits for both widths
ShiftCountLow5(v2, w) == v2 % 32

\* let s = v2 & 0x1F (int) or v2 & 0x3F (long): the & of the bits of v2 and of
\* the mask w - 1
ShiftCount(v2, w) ==
    Low([i \in 1..32 |-> IF ToBits(v2)[i] = 1 /\ ToBits(w - 1)[i] = 1 THEN 1 ELSE 0], 31)

\* v1 << s, v1 >> s on the signed type (the sign bit comes in from the left) and
\* (v1 as unsigned) >> s (zeros come in), on the bits b of v1
ShiftBits(op, b, s) ==
    LET w == Len(b)
    IN  [i \in 1..w |->
            CASE op \in {"ishl", "lshl"} -> IF i > s THEN b[i - s] ELSE 0
              [] op \in {"ishr", "lshr"} -> IF i + s <= w THEN b[i + s] ELSE b[w]
              [] OTHER -> IF i + s <= w THEN b[i + s] ELSE 0]

\* the operand type of the instr_shift_op! instances
ShiftOps == [ishl |-> "Int", lshl |-> "Long", ishr |-> "Int", lshr |-> "Long",
             iushr |-> "Int", lushr |-> "Long"]

ShiftInit ==
    /\ classes = NewMethodArea /\ heap = NewHeap
    /\ ctl = <<>> /\ ret = "none" /\ vm = "idle" /\ call = NoCall
    /\ result = NoOutcome /\ n_exec = 0
    /\ first = [call |-> NoCall, result |-> NoOutcome]
    /\ clinit_runs = [c \in ClassPath |-> 0]
    /\ ev = NoEvent /\ cp = <<>> /\ q = NoLookup
    /\ \E st \in UNION {[1..k ->
              {ValueInt(n) : n \in {0, 1, 5, 31, 32, 33, 63, 64, 65, -1, -32,
                                    2147483647, -2147483647 - 1}}
              \cup {LongOf(n) : n \in {1, -1, 2147483647, -2147483647 - 1}}
              \cup {[t |-> "Long", v |-> [i \in 1..64 |-> IF i = p THEN 1 ELSE 0]] : p \in {33, 64}}
              \cup {[t |-> "Long", v |-> [i \in 1..64 |-> IF i = 64 THEN 0 ELSE 1]]}] : k \in 1..2} :
          frames = <<[EmptyFrame EXCEPT !.op_stack = st]>>

\* an instance of instr_shift_op! (op) run on the frame: pops the int v2, then v1
InstrShift(op) ==
    /\ q = NoLookup
    /\ LET st == frames[1].op_stack
           n == Len(st)
           v2 == st[n]
           v1 == st[n - 1]
           w == IF ShiftOps[op] = "Int" THEN 32 ELSE 64
           bits == ShiftBits(op, IF w = 32 THEN ToBits(v1.v) ELSE v1.v, ShiftCount(v2.v, w))
           done(res, stack) ==
               /\ q' = [fn |-> op, pre |-> st, res |-> res]
               /\ frames' = <<[EmptyFrame EXCEPT !.op_stack = stack]>>
       IN  IF v2.t # "Int" THEN done("err", SubSeq(st, 1, n - 1))
           ELSE IF n = 1 THEN done("panic", <<>>)
           ELSE IF v1.t # ShiftOps[op] THEN done("err", SubSeq(st, 1, n - 2))
           ELSE done("ok", Append(SubSeq(st, 1, n - 2),
                                  IF w = 32 THEN ValueInt(FromBits(bits))
                                  ELSE [t |-> "Long", v |-> bits]))
    /\ UNCHANGED <<classes, heap, ctl, ret, vm, call, result, n_exec, first, clinit_runs, ev, cp>>

SpecShift == ShiftInit /\ [][\E op \in DOMAIN ShiftOps : InstrShift(op)]_vars

\* one shift of the bits b by one place: to the left, to the right with the sign
\* bit kept, to the right with a zero coming in
ShiftOnce(dir, b) ==
    CASE dir = "shl" -> <<0>> \o SubSeq(b, 1, Len(b) - 1)
      [] dir = "shr" -> Tail(b) \o <<b[Len(b)]>>
      [] OTHER -> Tail(b) \o <<0>>

RECURSIVE ShiftTimes(_, _, _)
\* s shifts of the bits b by one place
ShiftTimes(dir, b, s) ==
    LET once == ShiftOnce(dir, b)
    IN  IF s = 0 THEN b ELSE IF Len(once) = Len(b) THEN ShiftTimes(dir, once, s - 1) ELSE <<>>

\* the number in 0..2^k - 1 equal to n modulo 2^k: the lowest k bits of the count
LowBits(n, k) == n % (2^k)

\* C29: ishl, ishr and iushr shift by the low 5 bits of the count, lshl, lshr and
\* lushr by its low 6 bits; iushr and lushr shift zeros in from the left;
\* ishl(1, 32) = 1 and iushr(-1, 1) = 0x7FFFFFFF; the results are 32-bit (int) or
\* 64-bit (long) two's-complement values
C29_Shifts ==
    LET n == Len(q.pre)
        v1 == q.pre[n - 1]
        v2 == q.pre[n]
        out == Last(frames[1].op_stack)
        dir == CASE q.fn \in {"ishl", "lshl"} -> "shl"
                 [] q.fn \in {"ishr", "lshr"} -> "shr"
                 [] OTHER -> "ushr"
    IN  ( /\ q.fn \in {"ishl", "ishr", "iushr", "lshl", "lshr", "lushr"}
          /\ n = 2 /\ v2.t = "Int"
          /\ v1.t = (IF q.fn \in {"ishl", "ishr", "iushr"} THEN "Int" ELSE "Long") ) =>
            /\ q.res = "ok" /\ Len(frames[1].op_stack) = 1
            /\ v1.t = "Int" =>
                  /\ out.t = "Int" /\ out.v \in (-2147483647 - 1)..2147483647
                  /\ ToBits(out.v) = ShiftTimes(dir, ToBits(v1.v), LowBits(v2.v, 5))
            /\ v1.t = "Long" =>
                  /\ out.t = "Long" /\ Len(out.v) = 64
                  /\ out.v = ShiftTimes(dir, v1.v, LowBits(v2.v, 6))
            /\ (q.fn = "ishl" /\ v1.v = 1 /\ v2.v = 32) => out = ValueInt(1)
            /\ (q.fn = "iushr" /\ v1.v = -1 /\ v2.v = 1) => out = ValueInt(2147483647)

\* lushr of -1 by 65 left the long 0x7FFFFFFFFFFFFFFF
C29_Witness ==
    /\ q.fn = "lushr" /\ q.res = "ok" /\ q.pre = <<LongOf(-1), ValueInt(65)>>
    /\ Last(frames[1].op_stack).v = [i \in 1..64 |-> IF i = 64 THEN 0 ELSE 1]

----------------------------------------------------------------------------
\* C30: idiv, irem, ldiv and lrem with a zero divisor give an error outcome that
\* the dispatch loop returns to the execute caller as Err; no result value is
\* pushed and execution does not continue
C30_DivisionByZero ==
    [][ ( /\ Dispatching /\ ~AtCodeEnd
          /\ Instr.op \in {"idiv", "irem", "ldiv", "lrem"}
          /\ Len(CurrentFrame.op_stack) >= 2
          /\ Last(CurrentFrame.op_stack).v = 0
          /\ Last(CurrentFrame.op_stack).t = (IF Instr.op \in {"idiv", "irem"} THEN "Int" ELSE "Long")
          /\ Last(Front(CurrentFrame.op_stack)).t = Last(CurrentFrame.op_stack).t ) =>
            /\ ret' = "err" /\ vm' = "running"
            /\ Len(frames') = Len(frames)
            /\ Len(Last(frames').op_stack) < Len(CurrentFrame.op_stack) ]_vars

----------------------------------------------------------------------------
\* the classes reachable from the classes in S by one superclass or
\* superinterface link
OneLinkUp(S) == S \cup UNION { SuperNames(c) : c \in S \cap DOMAIN cp }

RECURSIVE LinksUp(_, _)
\* the classes reachable from the classes in S by at most k links
LinksUp(S, k) == IF k = 0 THEN S ELSE LinksUp(OneLinkUp(S), k - 1)

\* the classes reachable from n by any number of links, n included
Supertypes(n) == LinksUp({n}, Cardinality(DOMAIN cp))

\* C31: is_subclass_of(name, target) on a resolved class is true exactly when
\* target is name or is reachable from name by superclass and superinterface
\* links; over the resolved classes the relation is reflexive and transitive
C31_IsSubclassOf ==
    (q.fn = "is_subclass_of" /\ vm # "panicked") =>
        /\ q.ok = (q.target \in Supertypes(q.cls))
        /\ IsSubclassOf(q.cls, q.cls)
        /\ \A m \in DOMAIN classes :
              (IsSubclassOf(q.cls, m) /\ IsSubclassOf(m, q.target)) => q.ok

\* a call answered true for an interface two or more links away
C31_Witness ==
    /\ q.fn = "is_subclass_of" /\ vm # "panicked"
    /\ q.ok /\ q.target \in Interfaces
    /\ q.target \notin SuperNames(q.cls) \cup {q.cls}

----------------------------------------------------------------------------
\* the operand tag each typed return instruction is named after
TagOfReturn == [ireturn |-> "Int", lreturn |-> "Long", freturn |-> "Float",
                dreturn |-> "Double", areturn |-> "Reference"]

\* C32: a typed return whose top operand has the expected tag removes the current
\* frame and pushes exactly that value on the frame that becomes the top; return
\* removes the frame and pushes nothing; a typed return whose top operand has the
\* wrong tag yields an error and removes no frame
C32_Returns ==
    [][ (Dispatching /\ ~AtCodeEnd /\ Len(frames) >= 2) =>
          LET top == Last(CurrentFrame.op_stack)
              below == Front(frames)
              under == Front(below)
          IN  /\ ( /\ Instr.op \in DOMAIN TagOfReturn
                   /\ CurrentFrame.op_stack # <<>>
                   /\ top.t = TagOfReturn[Instr.op] ) =>
                     /\ frames' = Append(under, [Last(below) EXCEPT
                                            !.op_stack = Append(@, top)])
                     /\ ret' = "none" /\ vm' = "running"
              /\ Instr.op = "return" =>
                     /\ frames' = below
                     /\ ret' = "none" /\ vm' = "running"
              /\ ( /\ Instr.op \in DOMAIN TagOfReturn
                   /\ CurrentFrame.op_stack # <<>>
                   /\ top.t # TagOfReturn[Instr.op] ) =>
                     /\ ret' = "err" /\ vm' = "running"
                     /\ Len(frames') = Len(frames)
                     /\ Front(frames') = below ]_vars

\* dreturn failed on an int operand, in an execution after one whose lreturn
\* handed a long to the bootstrap frame
C32_Witness ==
    /\ ret = "err" /\ Len(frames) >= 2 /\ CurrentFrame.pc >= 2
    /\ first.result.kind = "Ok" /\ first.result.v.t = "Long"
    /\ CodeOf(CurrentFrame)[CurrentFrame.pc - 1].op = "dreturn"

----------------------------------------------------------------------------
\* the second exec_bootstrap_method call of an execute has returned Ok
BootstrapReturnedOk ==
    /\ vm = "running" /\ ctl # <<>>
    /\ Top.k = "boot" /\ Top.tag = "main" /\ ret = "none" /\ Len(frames) = 1

\* the method called has a non-void return type: its code ends with a typed return
NonVoid(c) == Last(ClassFile(c[1]).static_methods[c[2]].code).op \in DOMAIN TagOfReturn

\* C33: when exec_bootstrap_method returns Ok for a method with n arguments and a
\* non-void return type, the synthetic bottom frame is the top frame again, its
\* operand stack is the operands it held before the call minus the n transferred
\* arguments plus exactly one value, and execute returns that value
C33_BootstrapResult ==
    [][ (BootstrapReturnedOk /\ NonVoid(call)) =>
          LET n == ClassFile(call[1]).static_methods[call[2]].nargs
              args == CallArgs(call)
              st == CurrentFrame.op_stack
          IN  /\ CurrentFrame.class = "dummy"
              /\ Len(st) = Len(args) - n + 1
              /\ Front(st) = SubSeq(args, 1, Len(args) - n)
              /\ Last(st).t = TagOfReturn[Last(ClassFile(call[1]).static_methods[call[2]].code).op]
              /\ result' = [kind |-> "Ok", v |-> Last(st)]
              /\ vm' = "idle" ]_vars

\* execute returned the value of a method that took one of its two args
C33_Witness ==
    /\ vm = "idle" /\ call = <<"A", "arg1">>
    /\ result = [kind |-> "Ok", v |-> ValueInt(3)]

----------------------------------------------------------------------------
\* Class::initialize is about to call exec_class_initialization
CallsExecClassInitialization ==
    /\ vm = "running" /\ ret = "none" /\ ctl # <<>>
    /\ Top.k = "init" /\ Top.todo = <<>>

\* C34: exec_class_initialization called at frame depth D returns Ok without
\* pushing a frame or executing an instruction when the class declares no <clinit>;
\* otherwise it pushes one frame and, until it returns, the D frames that were on
\* the stack before the call stay the same frames in the same order with their
\* code cursors where they were, and when it returns Ok the depth is D again
C34_ClassInitFrames ==
    [][ /\ CallsExecClassInitialization =>
             IF CLINIT \in DOMAIN ClassFile(Top.cls).static_methods
             THEN /\ Len(frames') = Len(frames) + 1
                  /\ Front(frames') = frames
                  /\ Last(frames').class = Top.cls /\ Last(frames').meth = CLINIT
                  /\ Last(ctl').k = "xclinit" /\ Last(ctl').depth = Len(frames)
             ELSE frames' = frames /\ ret' = "ok" /\ ctl' = Front(ctl)
        /\ \A i \in DOMAIN ctl :
             (ctl[i].k = "xclinit" /\ i \in DOMAIN ctl' /\ ctl'[i] = ctl[i]) =>
                 /\ Len(frames') >= ctl[i].depth
                 /\ SubSeq(frames', 1, ctl[i].depth) = SubSeq(frames, 1, ctl[i].depth)
        /\ (ctl # <<>> /\ Top.k = "xclinit" /\ ctl' = Front(ctl) /\ ret' = "ok") =>
                 /\ frames' = frames
                 /\ Len(frames) = Top.depth ]_vars

\* exec_class_initialization returned Ok for a class with a <clinit>, called from
\* an instruction of a method frame
C34_Witness ==
    /\ ev.e = "init_ret" /\ ev.res = "ok" /\ ev.pre = "BeforeInit"
    /\ ev.cls \in ClassPath /\ CLINIT \in DOMAIN ClassFile(ev.cls).static_methods
    /\ Len(frames) >= 2 /\ CurrentFrame.class # "dummy"
    /\ vm = "running"

----------------------------------------------------------------------------
RECURSIVE DeclaringClass(_, _)
\* the class that declares static method m, looking at class c and then up its
\* superclass chain
DeclaringClass(c, m) ==
    IF m \in DOMAIN ClassFile(c).static_methods THEN c
    ELSE DeclaringClass(ClassFile(c).super_class, m)

\* C35: a successful invokestatic of a static method with n arguments increases
\* the frame depth by exactly 1; the new top frame belongs to the class that
\* declares the resolved method, starts at the first instruction with an empty
\* operand stack and has the n arguments in its locals from index 0; the caller
\* frame has lost exactly those n operands and its code cursor points just after
\* the invokestatic instruction
C35_Invokestatic ==
    [][ (InstrResumes("invokestatic") /\ ret' = "none" /\ vm' = "running") =>
          LET caller == CurrentFrame
              d == DeclaringClass(Top.cls, Top.name)
              n == ClassFile(d).static_methods[Top.name].nargs
              st == caller.op_stack
              callee == Last(frames')
              before == CodeOf(caller)[caller.pc - 1]
          IN  /\ Len(frames') = Len(frames) + 1
              /\ callee.class = d /\ callee.meth = Top.name
              /\ callee.pc = 1 /\ callee.op_stack = <<>>
              /\ Len(callee.locals) >= n
              /\ \A i \in 1..n : callee.locals[i] = st[Len(st) - n + i]
              /\ Front(Front(frames')) = Front(frames)
              /\ frames'[Len(frames)] =
                    [caller EXCEPT !.op_stack = SubSeq(st, 1, Len(st) - n)]
              /\ before.op = "invokestatic" /\ before.cls = Top.cls
              /\ before.name = Top.name ]_vars

\* an invokestatic of a one-argument method inherited from the superclass of the
\* class it names has pushed the callee frame
C35_Witness ==
    /\ ev = Accessed("invokestatic", "Sub")
    /\ Len(frames) >= 3
    /\ CurrentFrame.class = "Base" /\ CurrentFrame.locals = <<ValueInt(4)>>

----------------------------------------------------------------------------
(* exec_instr on a frame whose code is bytes: one conditional branch or    *)
(* goto at position p with a signed 16-bit delta, among nops.  The frame   *)
(* is [pc, i, code, op_stack]: i is the position of the code's ByteSeq,    *)
(* which has reached p.                                                    *)

\* the largest position of the branch instruction
MaxPos == 2
\* instructions executed on one frame
MaxInstrs == 2

CodeLen == MaxPos + 4

\* mutant of AsI16: the delta is taken as unsigned
AsI16Unsigned(u) == u

\* `as i16 as i32` on a u16
AsI16(u) == IF u >= 32768 THEN u - 65536 ELSE u

\* INSTRUCTION_TABLE, entries 0x00 and 0x99..0xA7
InstructionTable ==
    (0 :> "instr_nop")
    @@ (153 :> "instr_ifeq") @@ (154 :> "instr_ifne") @@ (155 :> "instr_iflt")
    @@ (156 :> "instr_ifge") @@ (157 :> "instr_ifgt") @@ (158 :> "instr_ifle")
    @@ (159 :> "instr_if_icmpeq") @@ (160 :> "instr_if_icmpne") @@ (161 :> "instr_if_icmplt")
    @@ (162 :> "instr_if_icmpge") @@ (163 :> "instr_if_icmpgt") @@ (164 :> "instr_if_icmple")
    @@ (165 :> "instr_if_acmpeq") @@ (166 :> "instr_if_acmpne") @@ (167 :> "instr_goto")

\* the $cmp_op of the instr_if_cond! instances
IfCondOps ==
    [instr_ifeq |-> "==", instr_ifne |-> "!=", instr_iflt |-> "<",
     instr_ifle |-> "<=", instr_ifgt |-> ">", instr_ifge |-> ">="]

\* the $cmp_op and $vtype of the instr_cmp_cond! instances
CmpCondOps ==
    [instr_if_icmpeq |-> <<"==", "Int">>, instr_if_icmpne |-> <<"!=", "Int">>,
     instr_if_icmplt |-> <<"<", "Int">>, instr_if_icmple |-> <<"<=", "Int">>,
     instr_if_icmpgt |-> <<">", "Int">>, instr_if_icmpge |-> <<">=", "Int">>,
     instr_if_acmpeq |-> <<"==", "Reference">>, instr_if_acmpne |-> <<"!=", "Reference">>]

\* lhs $cmp_op rhs
CmpOp(op, lhs, rhs) ==
    CASE op = "==" -> lhs = rhs [] op = "!=" -> lhs # rhs [] op = "<" -> lhs < rhs
      [] op = "<=" -> lhs <= rhs [] op = ">" -> lhs > rhs [] op = ">=" -> lhs >= rhs

\* the bytes of a method: opcode opc at position p followed by delta d as a
\* big-endian 16-bit two's complement number, nop everywhere else
BranchCode(p, opc, d) ==
    LET u == (d + 65536) % 65536
    IN  [k \in 1..CodeLen |->
            CASE k = p + 1 -> opc [] k = p + 2 -> u \div 256 [] k = p + 3 -> u % 256
              [] OTHER -> 0]

BranchInit ==
    /\ classes = NewMethodArea /\ heap = NewHeap /\ ctl = <<>> /\ ret = "none"
    /\ vm = "running" /\ call = NoCall /\ result = NoOutcome /\ n_exec = 0
    /\ first = [call |-> NoCall, result |-> NoOutcome]
    /\ clinit_runs = [c \in ClassPath |-> 0] /\ ev = NoEvent /\ cp = <<>>
    /\ \E p \in 0..MaxPos, opc \in DOMAIN InstructionTable \ {0}, d \in -MaxPos..(CodeLen - 1),
          st \in UNION {[1..k -> {ValueInt(-1), ValueInt(0), ValueInt(1),
                                  ValueReference(0), ValueReference(1)}] : k \in 0..2} :
          /\ p + d \in 0..(CodeLen - 1) /\ d \notin {1, 2}
          /\ frames = <<[pc |-> 0, i |-> p, code |-> BranchCode(p, opc, d), op_stack |-> st]>>
          /\ q = [fn |-> "none", n |-> 0, res |-> "ok", at |-> 0,
                  p |-> p, d |-> d, opc |-> opc, pre |-> st]

\* Frame::next_instruction would read this byte
OpcodeByte == frames[1].code[frames[1].i + 1]

\* exec_instr is about to run the handler h
Executes(h) ==
    /\ q.res = "ok" /\ q.n < MaxInstrs
    /\ frames[1].i < Len(frames[1].code)
    /\ OpcodeByte \in DOMAIN InstructionTable
    /\ InstructionTable[OpcodeByte] = h

\* exec_instr has run a handler: next_instruction set pc to the opcode's position;
\* the handler left the ByteSeq at i, jumped to pc (or not) and popped pops operands
Executed(h, i, jump, pops, res) ==
    /\ frames' = <<[frames[1] EXCEPT
                      !.pc = IF jump THEN i ELSE frames[1].i,
                      !.i = i,
                      !.op_stack = SubSeq(@, 1, Len(@) - pops)]>>
    /\ q' = [q EXCEPT !.fn = h, !.n = @ + 1, !.res = res, !.at = frames[1].i]
    /\ UNCHANGED <<classes, heap, ctl, ret, vm, call, result, n_exec, first, clinit_runs, ev, cp>>

\* Frame::next_param_u16 after the opcode, `as i16 as i32`
PcDelta ==
    AsI16(frames[1].code[frames[1].i + 2] * 256 + frames[1].code[frames[1].i + 3])

\* instr_nop
InstrNop ==
    /\ Executes("instr_nop")
    /\ Executed("instr_nop", frames[1].i + 1, FALSE, 0, "ok")

\* the instr_if_cond! instance h
InstrIfCond(h) ==
    /\ Executes(h)
    /\ LET f == frames[1]
           st == f.op_stack
           v == Last(st)
       IN  IF st = <<>> THEN Executed(h, f.i + 3, FALSE, 0, "panic")
           ELSE IF v.t # "Int" THEN Executed(h, f.i + 3, FALSE, 1, "err")
           ELSE IF CmpOp(IfCondOps[h], v.v, 0)
                THEN Executed(h, f.i + PcDelta, TRUE, 1, "ok")
                ELSE Executed(h, f.i + 3, FALSE, 1, "ok")

\* the instr_cmp_cond! instance h
InstrCmpCond(h) ==
    /\ Executes(h)
    /\ LET f == frames[1]
           st == f.op_stack
           n == Len(st)
           vtype == CmpCondOps[h][2]
       IN  IF n = 0 THEN Executed(h, f.i + 3, FALSE, 0, "panic")
           ELSE IF st[n].t # vtype THEN Executed(h, f.i + 3, FALSE, 1, "err")
           ELSE IF n = 1 THEN Executed(h, f.i + 3, FALSE, 1, "panic")
           ELSE IF st[n - 1].t # vtype THEN Executed(h, f.i + 3, FALSE, 2, "err")
           ELSE IF CmpOp(CmpCondOps[h][1], st[n - 1].v, st[n].v)
                THEN Executed(h, f.i + PcDelta, TRUE, 2, "ok")
                ELSE Executed(h, f.i + 3, FALSE, 2, "ok")

\* instr_goto
InstrGoto ==
    /\ Executes("instr_goto")
    /\ Executed("instr_goto", frames[1].i + PcDelta, TRUE, 0, "ok")

BranchNext ==
    \/ InstrNop
    \/ \E h \in DOMAIN IfCondOps : InstrIfCond(h)
    \/ \E h \in DOMAIN CmpCondOps : InstrCmpCond(h)
    \/ InstrGoto

SpecBranch == BranchInit /\ [][BranchNext]_vars

\* the platform's branch instructions by opcode: the number of operands, their
\* tag, and whether the branch is taken on operands a (below) and b (top)
PlatformBranch(opc, a, b) ==
    CASE opc = 153 -> [n |-> 1, t |-> "Int", taken |-> b = 0]
      [] opc = 154 -> [n |-> 1, t |-> "Int", taken |-> b # 0]
      [] opc = 155 -> [n |-> 1, t |-> "Int", taken |-> b < 0]
      [] opc = 156 -> [n |-> 1, t |-> "Int", taken |-> b >= 0]
      [] opc = 157 -> [n |-> 1, t |-> "Int", taken |-> b > 0]
      [] opc = 158 -> [n |-> 1, t |-> "Int", taken |-> b <= 0]
      [] opc = 159 -> [n |-> 2, t |-> "Int", taken |-> a = b]
      [] opc = 160 -> [n |-> 2, t |-> "Int", taken |-> a # b]
      [] opc = 161 -> [n |-> 2, t |-> "Int", taken |-> a < b]
      [] opc = 162 -> [n |-> 2, t |-> "Int", taken |-> a >= b]
      [] opc = 163 -> [n |-> 2, t |-> "Int", taken |-> a > b]
      [] opc = 164 -> [n |-> 2, t |-> "Int", taken |-> a <= b]
      [] opc = 165 -> [n |-> 2, t |-> "Reference", taken |-> a = b]
      [] opc = 166 -> [n |-> 2, t |-> "Reference", taken |-> a # b]
      [] opc = 167 -> [n |-> 0, t |-> "none", taken |-> TRUE]

\* the branch of the initial frame applied to its operands
Branch ==
    LET k == Len(q.pre)
    IN  PlatformBranch(q.opc, IF k >= 2 THEN q.pre[k - 1].v ELSE 0,
                              IF k >= 1 THEN q.pre[k].v ELSE 0)

\* the operands the branch needs are on the stack
BranchOperandsOk ==
    /\ Len(q.pre) >= Branch.n
    /\ \A k \in 1..Branch.n : q.pre[Len(q.pre) + 1 - k].t = Branch.t

\* C36: a conditional branch at pc p with signed 16-bit delta d continues at
\* p + d if the comparison its opcode names holds for the popped operands and at
\* p + 3 otherwise; goto always continues at p + d: the instruction returns Ok
\* with its operands popped, and the next instruction executed is the one there
C36_Branches ==
    LET dest == IF Branch.taken THEN q.p + q.d ELSE q.p + 3
    IN  /\ (BranchOperandsOk /\ q.n = 1) =>
              /\ q.res = "ok" /\ q.at = q.p
              /\ frames[1].i = dest
              /\ frames[1].op_stack = SubSeq(q.pre, 1, Len(q.pre) - Branch.n)
        /\ (BranchOperandsOk /\ q.n = 2) => q.at = dest

\* a conditional branch with a negative delta was taken and the instruction at its
\* destination was executed next
C36_Witness ==
    /\ q.n = 2 /\ q.d < 0 /\ q.opc # 167 /\ Branch.taken
    /\ q.at = q.p + q.d

----------------------------------------------------------------------------
\* the step calls resolve_class and nothing else that touches the method area
ResolvesOnly ==
    /\ vm = "running" /\ ret = "none" /\ ctl # <<>>
    /\ \/ Top.k = "bootcall"
       \/ /\ Dispatching /\ ~AtCodeEnd
          /\ Instr.op \in {"getstatic", "putstatic", "invokestatic", "new"}

\* C37: within one method area the loader is asked for a class name only while
\* that name is absent from the registry; a resolve_class of a registered name
\* returns the record the registry holds, with its init state and static field
\* cells as they are, without loading; no registry entry is removed or replaced
C37_RegistryMonotone ==
    [][ (vm = "running" /\ vm' = "running") =>
          /\ DOMAIN classes \subseteq DOMAIN classes'
          /\ \A n \in DOMAIN classes :
                classes'[n] # classes[n] =>
                    \/ ev'.e = "init_ret" /\ ev'.cls = n
                    \/ /\ ctl # <<>> /\ Top.k = "call" /\ Top.cls = n
                       /\ classes' [n] = [classes[n] EXCEPT !.init_state = "InProgress"]
                    \/ ev' = Accessed("putstatic", ev'.cls)
          /\ (q' # q \/ ResolvesOnly) =>
                /\ \A k \in DOMAIN q'.loads :
                      /\ q'.loads[k] \notin DOMAIN classes
                      /\ \A j \in DOMAIN q'.loads : q'.loads[j] = q'.loads[k] => j = k
                /\ DOMAIN classes' \ DOMAIN classes \subseteq {q'.loads[k] : k \in DOMAIN q'.loads}
          /\ ResolvesOnly =>
                /\ \A n \in DOMAIN classes : classes'[n] = classes[n]
                /\ q'.cls \in DOMAIN classes => (q'.ok /\ q'.loads = <<>>) ]_vars

\* resolve_class of a class that is registered, initialized and whose static cell
\* was written returned without asking the loader
C37_Witness ==
    /\ vm = "running" /\ q.fn = "resolve_class" /\ q.ok /\ q.loads = <<>>
    /\ q.cls \in DOMAIN classes
    /\ classes[q.cls].init_state = "Succeeded"
    /\ classes[q.cls].static_fields # cp[q.cls].static_fields
    /\ Cardinality(DOMAIN classes) >= 2

----------------------------------------------------------------------------
(* MethodArea::resolve_class step by step, on class paths whose superclass *)
(* and superinterface references may form cycles.  ctl is the Rust call    *)
(* stack: one entry per resolve_class activation.                          *)

\* the resolve_class activations the thread's stack has room for
MaxDepth == 4

CycleTypes == {"X", "Y", "Z"}

\* a resolve_class activation: entered, or in its calls on the superclass and
\* the interfaces still to resolve
Activation(n, phase, todo) == [cls |-> n, phase |-> phase, todo |-> todo]

CycleInit ==
    /\ frames = <<>> /\ classes = NewMethodArea /\ heap = NewHeap /\ ret = "none"
    /\ vm = "running" /\ call = NoCall /\ result = NoOutcome /\ n_exec = 0
    /\ first = [call |-> NoCall, result |-> NoOutcome]
    /\ clinit_runs = [c \in ClassPath |-> 0] /\ ev = NoEvent
    /\ \E present \in {CycleTypes, CycleTypes \ {"Z"}},
          sup \in [CycleTypes -> CycleTypes \cup {NoClass}],
          ifs \in [CycleTypes -> {<<>>, <<"Z">>}] :
          cp = [t \in present |->
                  [super_class |-> sup[t], interfaces |-> ifs[t], static_fields |-> NoFields]]
    /\ ctl = <<Activation("X", "enter", <<>>)>>
    /\ q = [fn |-> "resolve_class", cls |-> "X", res |-> "none"]

\* the top activation returns res to its caller
ResolveClassReturns(res) ==
    /\ ctl' = Front(ctl)
    /\ ret' = res
    /\ q' = IF Len(ctl) = 1 THEN [q EXCEPT !.res = res] ELSE q

\* resolve_class from its entry to the first recursive call: the registry lookup
\* and loader.load
ResolveClassEnter ==
    /\ vm = "running" /\ ctl # <<>> /\ Top.phase = "enter" /\ ret = "none"
    /\ IF Top.cls \in DOMAIN classes THEN ResolveClassReturns("ok")
       ELSE IF Top.cls \notin DOMAIN cp THEN ResolveClassReturns("err")
       ELSE /\ ctl' = Append(Front(ctl),
                        Activation(Top.cls, "supers",
                            (IF cp[Top.cls].super_class # NoClass
                             THEN <<cp[Top.cls].super_class>> ELSE <<>>)
                            \o cp[Top.cls].interfaces))
            /\ UNCHANGED <<ret, q>>
    /\ UNCHANGED <<frames, classes, heap, vm, call, result, n_exec, first, clinit_runs, ev, cp>>

\* the next `self.resolve_class(...)` on the superclass or an interface; a call
\* the stack has no room for aborts the process
ResolveClassRecurse ==
    /\ vm = "running" /\ ctl # <<>> /\ Top.phase = "supers" /\ ret = "none"
    /\ Top.todo # <<>>
    /\ IF Len(ctl) = MaxDepth
       THEN vm' = "panicked" /\ UNCHANGED ctl
       ELSE /\ ctl' = Front(ctl) \o <<Activation(Top.cls, "supers", Tail(Top.todo)),
                                      Activation(Head(Top.todo), "enter", <<>>)>>
            /\ UNCHANGED vm
    /\ UNCHANGED <<frames, classes, heap, ret, call, result, n_exec, first, clinit_runs, ev, cp, q>>

\* `self.resolve_class(...)?` returned
ResolveClassRecursed ==
    /\ vm = "running" /\ ctl # <<>> /\ Top.phase = "supers" /\ ret # "none"
    /\ IF ret = "ok" THEN ret' = "none" /\ UNCHANGED <<ctl, q>>
       ELSE ResolveClassReturns("err")
    /\ UNCHANGED <<frames, classes, heap, vm, call, result, n_exec, first, clinit_runs, ev, cp>>

\* the superclass and the interfaces are resolved: insert and return the class
ResolveClassInsert ==
    /\ vm = "running" /\ ctl # <<>> /\ Top.phase = "supers" /\ ret = "none"
    /\ Top.todo = <<>>
    /\ classes' = (Top.cls :> FromClassFile(Top.cls)) @@ classes
    /\ ResolveClassReturns("ok")
    /\ UNCHANGED <<frames, heap, vm, call, result, n_exec, first, clinit_runs, ev, cp>>

CycleNext ==
    \/ ResolveClassEnter
    \/ ResolveClassRecurse
    \/ ResolveClassRecursed
    \/ ResolveClassInsert

\* the thread runs until resolve_class returns or the process aborts
SpecCycle == CycleInit /\ [][CycleNext]_vars /\ WF_vars(CycleNext)

\* C38: resolve_class(name) terminates with a class or an error for every finite
\* set of loadable class files, including those whose superclass and
\* superinterface references form a cycle
C38_ResolveTerminates == <>(q.res \in {"ok", "err"})

----------------------------------------------------------------------------
\* C39: getstatic and putstatic never read or write a static field cell whose
\* declaring class or interface, the one resolve_static_field finds, is still in
\* state BeforeInit
C39_DeclaringClassInitialized ==
    [][ \A op \in {"getstatic", "putstatic"} :
          ( /\ InstrResumes(op)
            /\ ResolveStaticField(Top.cls, Top.name).ok
            /\ ev' = Accessed(op, Top.cls) ) =>
              classes[ResolveStaticField(Top.cls, Top.name).owner].init_state # "BeforeInit" ]_vars

============================================================================
